---- MODULE Spec2Model ----
(***************************************************************************)
(* State-machine model of the StudySpot API (src/main.py): the two         *)
(* relational tables studyspots and hours reached through execute_query,   *)
(* the process-wide geocode job map, the background geocode task and the   *)
(* HTTP handlers.                                                          *)
(*                                                                         *)
(* Conventions.  SQL NULL / Python None is the string NULL.  Identifiers   *)
(* (uuid4 values) are integers: spot ids 1..MaxSpots and job ids           *)
(* 1..MaxJobs are issued in order and never reused; Fresh stands for an    *)
(* identifier generated by a default_factory=uuid4 while a response object *)
(* is built (it differs from every identifier a client can have sent).     *)
(* A table is a function from the key of its rows to the row, so a row     *)
(* exists exactly when its key is in the DOMAIN.                           *)
(***************************************************************************)
EXTENDS Integers, Sequences, FiniteSets, TLC

\* ------------------------------------------------------------------ bounds
\* spots created, and PATCH requests committed, in the request specification
MaxSpots == 2
MaxPatches == 1
\* jobs posted in the job specification, and in the one with fairness
MaxJobs == 2
MaxFairJobs == 1
\* PATCH requests committed in the single-parameter specification
MaxFieldPatches == 1
\* spots created, and jobs posted plus PATCH requests committed, in the
\* specification of identifiers
MaxIdSpots == 2
MaxIdWrites == 1
\* PATCH requests committed in the specification of PATCH sequences
MaxSeqPatches == 2
\* PATCH requests begun, and jobs posted, in the specification of
\* overlapping transactions
MaxClockPatches == 1
MaxClockJobs == 1
\* spots created, and the largest page and page_size requested, in the
\* specification of GET /studyspots
MaxListSpots == 3
MaxPage == 2
MaxPageSize == 2
\* spots created in the specification of GET /studyspots overlapping with
\* writes
MaxPagedSpots == 3
\* PATCH requests committed plus jobs posted in the specification of two
\* spots
MaxFrameWrites == 2

\* ------------------------------------------------------------------ values
NULL == "NULL"
Fresh == 0
\* Optional[list[Environment]] left out of the payload (None)
NoneList == <<"None">>

SpotIds == 1..MaxSpots
JobIds == 1..MaxJobs

DayNames == <<"mon", "tue", "wed", "thu", "fri", "sat", "sun">>
StartCols == {"mon_start", "tue_start", "wed_start", "thu_start", "fri_start", "sat_start", "sun_start"}
EndCols == {"mon_end", "tue_end", "wed_end", "thu_end", "fri_end", "sat_end", "sun_end"}
\* columns of table hours that a request can set
HourCols == StartCols \cup EndCols
\* columns of table studyspots that hold the address and the amenities
AddressCols == {"street", "city", "state", "postal_code", "latitude", "longitude", "neighborhood"}
AmenityCols == {"wifi_available", "wifi_network", "outlets", "seating", "refreshments", "environment"}
SpotCols == {"name"} \cup AddressCols \cup AmenityCols

\* ------------------------------------------------------- create payloads
\* StudySpotCreate bodies: the seed entry "Battery Park City Library" with
\* client-chosen ids, and a body that leaves every optional field out.
HoursFull ==
    [id |-> 903,
     mon_start |-> "10:00", mon_end |-> "18:00", tue_start |-> "10:00", tue_end |-> "18:00",
     wed_start |-> "11:00", wed_end |-> "19:00", thu_start |-> "10:00", thu_end |-> "18:00",
     fri_start |-> "10:00", fri_end |-> "17:00", sat_start |-> "10:00", sat_end |-> "17:00",
     sun_start |-> NULL, sun_end |-> NULL]

HoursEmpty ==
    [id |-> 913,
     mon_start |-> NULL, mon_end |-> NULL, tue_start |-> NULL, tue_end |-> NULL,
     wed_start |-> NULL, wed_end |-> NULL, thu_start |-> NULL, thu_end |-> NULL,
     fri_start |-> NULL, fri_end |-> NULL, sat_start |-> NULL, sat_end |-> NULL,
     sun_start |-> NULL, sun_end |-> NULL]

PayloadFull ==
    [id |-> 900, name |-> "Battery Park City Library",
     address |-> [id |-> 901, street |-> "175 North End Ave", city |-> "New York", state |-> "NY",
                  postal_code |-> "10282", longitude |-> "-74.0150", latitude |-> "40.7150",
                  neighborhood |-> "Financial District (FiDi)"],
     amenity |-> [id |-> 902, wifi_available |-> TRUE, wifi_network |-> "NYPL", outlets |-> TRUE,
                  seating |-> "11-20", refreshments |-> "none",
                  environment |-> <<"quiet", "indoor">>],
     hour |-> HoursFull]

PayloadMin ==
    [id |-> 910, name |-> "Inwood Library",
     address |-> [id |-> 911, street |-> "4790 Broadway", city |-> "Albany", state |-> "NY",
                  postal_code |-> "10034", longitude |-> NULL, latitude |-> NULL,
                  neighborhood |-> "Inwood"],
     amenity |-> [id |-> 912, wifi_available |-> FALSE, wifi_network |-> NULL, outlets |-> FALSE,
                  seating |-> "1-5", refreshments |-> NULL,
                  environment |-> NoneList],
     hour |-> HoursEmpty]

Payloads == {PayloadFull, PayloadMin}

\* ------------------------------------------------------------- the tables
VARIABLES
    studyspots,   \* table studyspots: id -> row
    hours,        \* table hours: studyspot_id -> row
    jobs,         \* the job map: job_id -> [status, result]
    task,         \* scheduled run_geocode_job calls: job_id -> locals and position
    nextId,       \* number of spot ids issued so far, plus one
    npatch,       \* number of PATCH requests committed, or begun in two steps
    now,          \* the database clock
    last,         \* the last request that was answered, and its answer
    txn,          \* open transactions of PATCH requests: studyspot_id ->
                  \* [patch, begun], begun being what NOW() returns in it
    listing,      \* GET /studyspots requests between their page query and
                  \* their count query: the request and the tables it read
    polling       \* GET /jobs/{job_id} requests between their read of
                  \* job["status"] and their read of job["result"]: the id
                  \* and the status read

vars == <<studyspots, hours, jobs, task, nextId, npatch, now, last, txn, listing, polling>>

\* The two tables as one value, as a transaction sees them.
Db == [studyspots |-> studyspots, hours |-> hours]

\* f with the entry for key k removed
Remove(f, k) == [x \in DOMAIN f \ {k} |-> f[x]]
\* f with the entry for key k set to v
Put(f, k, v) == [x \in DOMAIN f \cup {k} |-> IF x = k THEN v ELSE f[x]]
\* row with the columns of set overwritten (SQL UPDATE ... SET)
SetCols(row, set) == [c \in DOMAIN row |-> IF c \in DOMAIN set THEN set[c] ELSE row[c]]
\* the row of s JOIN h
JoinRow(s, h) == [c \in DOMAIN s \cup DOMAIN h |-> IF c \in DOMAIN s THEN s[c] ELSE h[c]]

\* ------------------------------------------------------------ text and time
\* The characters of a text value: of the values that names, refreshments
\* and the free-text filters take.
Chars(s) ==
    CASE s = "" -> <<>>
      [] s = "%" -> <<"%">>
      [] s = "_" -> <<"_">>
      [] s = "on" -> <<"o", "n">>
      [] s = "tea" -> <<"t", "e", "a">>
      [] s = "none" -> <<"n", "o", "n", "e">>
      [] s = "Park" -> <<"P", "a", "r", "k">>
      [] s = "Library" -> <<"L", "i", "b", "r", "a", "r", "y">>
      [] s = "Renamed" -> <<"R", "e", "n", "a", "m", "e", "d">>
      [] s = "Inwood Library" ->
            <<"I", "n", "w", "o", "o", "d", " ", "L", "i", "b", "r", "a", "r", "y">>
      [] s = "coffee, pastries" ->
            <<"c", "o", "f", "f", "e", "e", ",", " ", "p", "a", "s", "t", "r", "i", "e", "s">>
      [] s = "Battery Park City Library" ->
            <<"B", "a", "t", "t", "e", "r", "y", " ", "P", "a", "r", "k", " ",
              "C", "i", "t", "y", " ", "L", "i", "b", "r", "a", "r", "y">>
      [] s = "R&D" -> <<"R", "&", "D">>
      [] s = "NYU Bobst Library" ->
            <<"N", "Y", "U", " ", "B", "o", "b", "s", "t", " ",
              "L", "i", "b", "r", "a", "r", "y">>
      \* any other value is written as one symbol
      [] OTHER -> <<s>>

\* text LIKE pattern of PostgreSQL, on characters: % matches any run of
\* characters, _ any one character, every other character itself
RECURSIVE Like(_, _)
Like(text, pattern) ==
    IF pattern = <<>> THEN text = <<>>
    ELSE IF Head(pattern) = "%"
         THEN Like(text, Tail(pattern)) \/ (text # <<>> /\ Like(Tail(text), pattern))
         ELSE /\ text # <<>>
              /\ Head(pattern) = "_" \/ Head(pattern) = Head(text)
              /\ Like(Tail(text), Tail(pattern))

\* f"%{value}%"
Wrapped(value) == <<"%">> \o Chars(value) \o <<"%">>

\* a TIME value as minutes after midnight
Minutes(t) ==
    CASE t = "07:30" -> 450 [] t = "09:00" -> 540 [] t = "10:00" -> 600
      [] t = "11:00" -> 660 [] t = "12:00" -> 720 [] t = "16:00" -> 960
      [] t = "17:00" -> 1020 [] t = "18:00" -> 1080 [] t = "19:00" -> 1140
      [] t = "23:00" -> 1380 [] t = "01:00" -> 60 [] t = "02:00" -> 120
      [] t = "08:00" -> 480

\* the columns {day}_start and {day}_end
StartCol(day) ==
    CASE day = "mon" -> "mon_start" [] day = "tue" -> "tue_start" [] day = "wed" -> "wed_start"
      [] day = "thu" -> "thu_start" [] day = "fri" -> "fri_start" [] day = "sat" -> "sat_start"
      [] day = "sun" -> "sun_start"
EndCol(day) ==
    CASE day = "mon" -> "mon_end" [] day = "tue" -> "tue_end" [] day = "wed" -> "wed_end"
      [] day = "thu" -> "thu_end" [] day = "fri" -> "fri_end" [] day = "sat" -> "sat_end"
      [] day = "sun" -> "sun_end"

\* The WHERE clause that list_studyspots appends to "WHERE 1=1", on one
\* row of s JOIN h.  where maps the name of each appended clause to its
\* bound parameter; a comparison with NULL is not true.
\* faulty variant: hours that end before they start are taken to run past
\* midnight
WhereOvernight(row, where) ==
    /\ "name" \in DOMAIN where =>
            row.name # NULL /\ Like(Chars(row.name), where.name)
    /\ "neighborhood" \in DOMAIN where => row.neighborhood = where.neighborhood
    /\ "wifi_available" \in DOMAIN where => row.wifi_available = where.wifi_available
    /\ "outlets" \in DOMAIN where => row.outlets = where.outlets
    /\ "seating" \in DOMAIN where => row.seating = where.seating
    /\ "refreshments" \in DOMAIN where =>
            row.refreshments # NULL /\ Like(Chars(row.refreshments), where.refreshments)
    /\ "environment" \in DOMAIN where =>
            \E i \in DOMAIN row.environment : row.environment[i] = where.environment
    /\ "open_day" \in DOMAIN where => row[StartCol(where.open_day)] # NULL
    /\ "open_now" \in DOMAIN where =>
            /\ row[StartCol(where.open_now)] # NULL
            /\ row[EndCol(where.open_now)] # NULL
            /\ IF Minutes(row[StartCol(where.open_now)]) <= Minutes(row[EndCol(where.open_now)])
               THEN /\ Minutes(row[StartCol(where.open_now)]) <= Minutes(where.current_time)
                    /\ Minutes(row[EndCol(where.open_now)]) >= Minutes(where.current_time)
               ELSE \/ Minutes(row[StartCol(where.open_now)]) <= Minutes(where.current_time)
                    \/ Minutes(row[EndCol(where.open_now)]) >= Minutes(where.current_time)

Where(row, where) ==
    /\ "name" \in DOMAIN where =>
            row.name # NULL /\ Like(Chars(row.name), where.name)
    /\ "neighborhood" \in DOMAIN where => row.neighborhood = where.neighborhood
    /\ "wifi_available" \in DOMAIN where => row.wifi_available = where.wifi_available
    /\ "outlets" \in DOMAIN where => row.outlets = where.outlets
    /\ "seating" \in DOMAIN where => row.seating = where.seating
    /\ "refreshments" \in DOMAIN where =>
            row.refreshments # NULL /\ Like(Chars(row.refreshments), where.refreshments)
    /\ "environment" \in DOMAIN where =>
            \E i \in DOMAIN row.environment : row.environment[i] = where.environment
    /\ "open_day" \in DOMAIN where => row[StartCol(where.open_day)] # NULL
    /\ "open_now" \in DOMAIN where =>
            /\ row[StartCol(where.open_now)] # NULL
            /\ row[EndCol(where.open_now)] # NULL
            /\ Minutes(row[StartCol(where.open_now)]) <= Minutes(where.current_time)
            /\ Minutes(row[EndCol(where.open_now)]) >= Minutes(where.current_time)

\* the ids of the rows of s JOIN h that satisfy the WHERE clause
Matching(db, where) ==
    {id \in DOMAIN db.studyspots \cap DOMAIN db.hours :
        Where(JoinRow(db.studyspots[id], db.hours[id]), where)}

\* the orders in which a set of rows can be yielded
Orders(ids) ==
    {order \in [1..Cardinality(ids) -> ids] :
        \A i, j \in 1..Cardinality(ids) : i # j => order[i] # order[j]}

\* the sequence without its first n elements, and its first n elements
Drop(seq, n) == IF n >= Len(seq) THEN <<>> ELSE SubSeq(seq, n + 1, Len(seq))
Take(seq, n) == IF n >= Len(seq) THEN seq ELSE SubSeq(seq, 1, n)

\* ----------------------------------------------------------- SQL statements
IsSelect(q) == q.stmt \in {"SELECT join", "SELECT address", "SELECT page", "SELECT COUNT"}

\* rows a SELECT statement yields on db
SelectRows(db, q) ==
    CASE q.stmt = "SELECT join" ->
            IF q.id \in DOMAIN db.studyspots /\ q.id \in DOMAIN db.hours
            THEN <<JoinRow(db.studyspots[q.id], db.hours[q.id])>>
            ELSE <<>>
      [] q.stmt = "SELECT address" ->
            IF q.id \in DOMAIN db.studyspots
            THEN <<[c \in {"street", "city", "state"} |-> db.studyspots[q.id][c]]>>
            ELSE <<>>
      \* the statement has no ORDER BY: q.order is the order in which the
      \* database happens to yield the matching rows
      [] q.stmt = "SELECT page" ->
            LET rows == [i \in 1..Len(q.order) |->
                            JoinRow(db.studyspots[q.order[i]], db.hours[q.order[i]])]
            IN  Take(Drop(rows, q.offset), q.page_size)
      [] q.stmt = "SELECT COUNT" ->
            <<[total |-> Cardinality(Matching(db, q.where))]>>

\* number of rows a data-changing statement affects on db
RowCount(db, q) ==
    CASE q.stmt = "INSERT studyspots" -> 1
      [] q.stmt = "INSERT hours" -> 1
      [] q.stmt \in {"UPDATE studyspots", "DELETE studyspots"} ->
            IF q.id \in DOMAIN db.studyspots THEN 1 ELSE 0
      [] q.stmt \in {"UPDATE hours", "DELETE hours"} ->
            IF q.id \in DOMAIN db.hours THEN 1 ELSE 0

\* db after a data-changing statement; t is the value of NOW()
Apply(db, q, t) ==
    CASE q.stmt = "INSERT studyspots" ->
            [db EXCEPT !.studyspots = Put(@, q.id, q.row)]
      [] q.stmt = "INSERT hours" ->
            [db EXCEPT !.hours = Put(@, q.id, q.row)]
      [] q.stmt = "UPDATE studyspots" ->
            IF q.id \in DOMAIN db.studyspots
            THEN [db EXCEPT !.studyspots[q.id] =
                      [SetCols(@, q.set) EXCEPT !.updated_at = t]]
            ELSE db
      [] q.stmt = "UPDATE hours" ->
            IF q.id \in DOMAIN db.hours
            THEN [db EXCEPT !.hours[q.id] = SetCols(@, q.set)]
            ELSE db
      [] q.stmt = "DELETE hours" ->
            [db EXCEPT !.hours = Remove(@, q.id)]
      [] q.stmt = "DELETE studyspots" ->
            [db EXCEPT !.studyspots = Remove(@, q.id)]

\* ------------------------------------------------------------ execute_query
\* The loop of execute_query from statement i on.  results is the Python
\* value of the same name: a list (of row counts, or the rows of .all()) or
\* the single row mapping of .fetchone().  A SELECT with no row raises 404
\* and the transaction is rolled back to db0.
RECURSIVE RunQueries(_, _, _, _, _, _, _)
RunQueries(db0, db, queries, i, results, fetchone, t) ==
    IF i > Len(queries)
    THEN [db |-> db, raised |-> 0, results |-> results]
    ELSE LET q == queries[i] IN
         IF IsSelect(q)
         THEN LET rows == SelectRows(db, q) IN
              IF rows = <<>>
              THEN [db |-> db0, raised |-> 404, results |-> results]
              ELSE RunQueries(db0, db, queries, i + 1,
                              IF fetchone THEN [kind |-> "row", v |-> rows[1]]
                                          ELSE [kind |-> "list", v |-> rows],
                              fetchone, t)
         ELSE IF results.kind = "row"
              THEN [db |-> db0, raised |-> 500, results |-> results]
              ELSE RunQueries(db0, Apply(db, q, t), queries, i + 1,
                              [kind |-> "list", v |-> Append(results.v, RowCount(db, q))],
                              fetchone, t)

\* results[0] if len(results)==1 else results
Unwrap(results) ==
    IF results.kind = "list" /\ Len(results.v) = 1
    THEN [kind |-> "item", v |-> results.v[1]]
    ELSE results

\* faulty variant: every statement is committed on its own, so a session
\* that raises after the first statement leaves that statement applied
execute_query_autocommit(db, queries, fetchone, t, dbfail) ==
    IF dbfail
    THEN [db |-> IF IsSelect(queries[1]) THEN db ELSE Apply(db, queries[1], t),
          raised |-> 500, value |-> [kind |-> "none"]]
    ELSE LET r == RunQueries(db, db, queries, 1, [kind |-> "list", v |-> <<>>], fetchone, t) IN
         IF r.raised # 0
         THEN [db |-> db, raised |-> r.raised, value |-> [kind |-> "none"]]
         ELSE IF r.results.kind = "row" /\ Cardinality(DOMAIN r.results.v) = 1
              THEN [db |-> db, raised |-> 500, value |-> [kind |-> "none"]]
              ELSE [db |-> r.db, raised |-> 0, value |-> Unwrap(r.results)]

\* execute_query(queries, fetchone) on db at time t.  dbfail: the session
\* raises (connection lost, statement error), which rolls back and surfaces
\* as 500.  Yields the new tables, the status raised (0: none) and the value
\* returned.
execute_query(db, queries, fetchone, t, dbfail) ==
    IF dbfail
    THEN [db |-> db, raised |-> 500, value |-> [kind |-> "none"]]
    ELSE LET r == RunQueries(db, db, queries, 1, [kind |-> "list", v |-> <<>>], fetchone, t) IN
         IF r.raised # 0
         THEN [db |-> db, raised |-> r.raised, value |-> [kind |-> "none"]]
         ELSE IF r.results.kind = "row" /\ Cardinality(DOMAIN r.results.v) = 1
              THEN [db |-> db, raised |-> 500, value |-> [kind |-> "none"]]
              ELSE [db |-> r.db, raised |-> 0, value |-> Unwrap(r.results)]

\* ---------------------------------------------------------------- geocoding
\* What the maps service answers for an address (gmaps.geocode): no result
\* for "Nowhere Rd", a result without a postal_code component for "Pier 1",
\* and otherwise one result whose coordinates depend on street and city.
GeoLat(street, city) ==
    IF city = "New York"
    THEN CASE street = "175 North End Ave" -> "40.7151"
           [] street = "4790 Broadway" -> "40.8675"
           [] street = "184 Duane St" -> "40.7167"
           [] OTHER -> "40.7001"
    ELSE CASE street = "175 North End Ave" -> "42.6501"
           [] street = "4790 Broadway" -> "42.6502"
           [] street = "184 Duane St" -> "42.6503"
           [] OTHER -> "42.6504"

GeoLng(street, city) ==
    IF city = "New York"
    THEN CASE street = "175 North End Ave" -> "-74.0151"
           [] street = "4790 Broadway" -> "-73.9213"
           [] street = "184 Duane St" -> "-74.0103"
           [] OTHER -> "-74.0001"
    ELSE CASE street = "175 North End Ave" -> "-73.7501"
           [] street = "4790 Broadway" -> "-73.7502"
           [] street = "184 Duane St" -> "-73.7503"
           [] OTHER -> "-73.7504"

GeoPostal(street, city) ==
    IF city = "New York"
    THEN CASE street = "175 North End Ave" -> "10282"
           [] street = "4790 Broadway" -> "10034"
           [] street = "184 Duane St" -> "10013"
           [] OTHER -> "10001"
    ELSE CASE street = "Pier 1" -> NULL
           [] OTHER -> "12207"

gmaps_geocode(street, city, state) ==
    IF street = "Nowhere Rd"
    THEN <<>>
    ELSE <<[lat |-> GeoLat(street, city), lng |-> GeoLng(street, city),
            components |-> IF street = "Pier 1" THEN {} ELSE {"postal_code"},
            postal_code |-> GeoPostal(street, city)]>>

\* faulty variant: postal_code bound to None before the loop over the
\* address components
get_geocode_postal_none(street, city, state, gfail) ==
    LET data == gmaps_geocode(street, city, state) IN
    IF gfail THEN [raised |-> TRUE, error |-> "client error"]
    ELSE IF data = <<>> THEN [raised |-> TRUE, error |-> "Geocoding failed: no results"]
    ELSE [raised |-> FALSE, latitude |-> data[1].lat, longitude |-> data[1].lng,
          postal_code |-> IF "postal_code" \in data[1].components
                          THEN data[1].postal_code ELSE NULL]

\* get_geocode(street, city, state).  gfail: the maps client raises.  No
\* result raises; a result with no postal_code component leaves the local
\* postal_code unbound, so the return statement raises.
get_geocode(street, city, state, gfail) ==
    LET data == gmaps_geocode(street, city, state) IN
    IF gfail THEN [raised |-> TRUE, error |-> "client error"]
    ELSE IF data = <<>> THEN [raised |-> TRUE, error |-> "Geocoding failed: no results"]
    ELSE IF "postal_code" \notin data[1].components
         THEN [raised |-> TRUE, error |-> "local variable 'postal_code' referenced before assignment"]
    ELSE [raised |-> FALSE, latitude |-> data[1].lat, longitude |-> data[1].lng,
          postal_code |-> data[1].postal_code]

\* ------------------------------------------------------------ response model
\* bool(x) of a stored boolean column
Bool(x) == x = TRUE

\* StudySpotRead(...) as every handler builds it from the joined row: the
\* embedded address, amenity and hour objects are built without an id, so
\* each gets a new one from its default_factory.
StudySpotRead(spot) ==
    [id |-> spot.id, name |-> spot.name,
     address |-> [id |-> Fresh, street |-> spot.street, city |-> spot.city, state |-> spot.state,
                  postal_code |-> spot.postal_code, longitude |-> spot.longitude,
                  latitude |-> spot.latitude, neighborhood |-> spot.neighborhood],
     amenity |-> [id |-> Fresh, wifi_available |-> Bool(spot.wifi_available),
                  wifi_network |-> spot.wifi_network, outlets |-> Bool(spot.outlets),
                  seating |-> spot.seating, refreshments |-> spot.refreshments,
                  environment |-> spot.environment],
     hour |-> [c \in HourCols \cup {"id"} |-> IF c = "id" THEN Fresh ELSE spot[c]],
     created_at |-> spot.created_at, updated_at |-> spot.updated_at]

\* The "links" value get_studyspot and update_studyspot return: a Python
\* list of one link.  rel and geocode stand for the paths
\* f"/studyspots/{id}" and f"/studyspots/{id}/geocode".
SelfLinks(id) == [pytype |-> "list", items |-> <<[href |-> "self", rel |-> id, type |-> "GET"]>>]

\* The "links" value create_studyspot returns: its link has the key
\* "geocode" as well.
CreateLinks(id) ==
    [pytype |-> "list",
     items |-> <<[href |-> "self", rel |-> id, geocode |-> id, type |-> "GET"]>>]

\* AddressRead(...) as the handlers call it: postal_code is declared str,
\* and spot.get("postal_code", "00000") is None for a row whose column is
\* NULL, so the constructor raises a validation error for such a row.
AddressReadRaises(spot) == spot.postal_code = NULL

\* StudySpotResponse (data: StudySpotRead, links: dict): does content
\* validate as the declared response model?
StudySpotResponse(content) == content.links.pytype = "dict"

\* response_model=List[StudySpotResponse]
StudySpotResponseList(content) ==
    \A i \in DOMAIN content.items : StudySpotResponse(content.items[i])

NoContent == [none |-> TRUE]

\* The status the client receives: the status the handler raised, or, when
\* the handler returned, the declared status; a route that declares
\* response_model=StudySpotResponse answers 500 instead when the returned
\* value does not validate as that model.
HttpStatus(raised, content, declared, response_model) ==
    IF raised # 0 THEN raised
    ELSE IF response_model /\ ~StudySpotResponse(content) THEN 500
    ELSE declared

\* -------------------------------------------------------------------- health
\* faulty variant: the probe reports the service as unavailable
make_health_unavailable(echo, path_echo) ==
    [status |-> 503, status_message |-> "Service Unavailable", timestamp |-> "utcnow",
     ip_address |-> "ip", echo |-> echo, path_echo |-> path_echo]

\* make_health(echo, path_echo): the Health object, with the wall-clock
\* time and the address of the host
make_health(echo, path_echo) ==
    [status |-> 200, status_message |-> "OK", timestamp |-> "utcnow",
     ip_address |-> "ip", echo |-> echo, path_echo |-> path_echo]

\* the response model Health (models/health.py): an integer status, the
\* texts status_message, timestamp and ip_address, optional echo and
\* path_echo
Health(content) ==
    /\ DOMAIN content = {"status", "status_message", "timestamp", "ip_address", "echo", "path_echo"}
    /\ content.status \in Int

\* GET /health.  hostfail: the name of the host does not resolve, so
\* socket.gethostbyname raises, which no handler catches.
get_health_no_path(echo, hostfail) ==
    IF hostfail
    THEN [raised |-> 500, content |-> NoContent]
    ELSE [raised |-> 0, content |-> make_health(echo, NULL)]

\* ------------------------------------------------------------------ handlers
\* Every handler is an operator from the tables (and the request) to
\*   [db: the tables afterwards, raised: the HTTPException status the handler
\*    raised (0: it returned), content: the value it returned].

\* except Exception as e: raise HTTPException(status_code=500, ...) with no
\* except HTTPException clause before it: every exception, an HTTPException
\* raised inside the try block included, leaves as 500.
WrapAll(raised) == IF raised # 0 THEN 500 ELSE 0

\* faulty variant: the except HTTPException clause left out
WrapOtherCaught(raised) == IF raised # 0 THEN 500 ELSE 0

\* except HTTPException: raise / except Exception: ... 500
WrapOther(raised) == raised

\* Json([env.value ... for env in (environment or [])])
JsonEnv(environment) == IF environment = NoneList THEN <<>> ELSE environment

SelectJoin(id) == [stmt |-> "SELECT join", id |-> id]

\* faulty variant: the row gets the id of the request body
InsertSpotRowBodyId(spot_id, studyspot, t) ==
    [id |-> studyspot.id, name |-> studyspot.name,
     street |-> studyspot.address.street, city |-> studyspot.address.city,
     state |-> studyspot.address.state, postal_code |-> studyspot.address.postal_code,
     latitude |-> studyspot.address.latitude, longitude |-> studyspot.address.longitude,
     neighborhood |-> studyspot.address.neighborhood,
     wifi_available |-> studyspot.amenity.wifi_available,
     wifi_network |-> studyspot.amenity.wifi_network,
     outlets |-> studyspot.amenity.outlets, seating |-> studyspot.amenity.seating,
     refreshments |-> studyspot.amenity.refreshments,
     environment |-> JsonEnv(studyspot.amenity.environment),
     created_at |-> t, updated_at |-> t]

\* the parameters of INSERT INTO studyspots
InsertSpotRow(spot_id, studyspot, t) ==
    [id |-> spot_id, name |-> studyspot.name,
     street |-> studyspot.address.street, city |-> studyspot.address.city,
     state |-> studyspot.address.state, postal_code |-> studyspot.address.postal_code,
     latitude |-> studyspot.address.latitude, longitude |-> studyspot.address.longitude,
     neighborhood |-> studyspot.address.neighborhood,
     wifi_available |-> studyspot.amenity.wifi_available,
     wifi_network |-> studyspot.amenity.wifi_network,
     outlets |-> studyspot.amenity.outlets, seating |-> studyspot.amenity.seating,
     refreshments |-> studyspot.amenity.refreshments,
     environment |-> JsonEnv(studyspot.amenity.environment),
     created_at |-> t, updated_at |-> t]

\* the parameters of INSERT INTO hours
InsertHoursRow(spot_id, studyspot) ==
    [c \in HourCols \cup {"hour_id", "studyspot_id"} |->
        IF c = "hour_id" THEN Fresh
        ELSE IF c = "studyspot_id" THEN spot_id
        ELSE studyspot.hour[c]]

\* POST /studyspots
create_studyspot(db, studyspot, spot_id, t, dbfail) ==
    LET queries == <<[stmt |-> "INSERT studyspots", id |-> spot_id,
                      row |-> InsertSpotRow(spot_id, studyspot, t)],
                     [stmt |-> "INSERT hours", id |-> spot_id,
                      row |-> InsertHoursRow(spot_id, studyspot)],
                     SelectJoin(spot_id)>>
        r == execute_query(db, queries, TRUE, t, dbfail)
    IN  IF r.raised # 0
        THEN [db |-> r.db, raised |-> WrapAll(r.raised), content |-> NoContent]
        ELSE IF AddressReadRaises(r.value.v)
        THEN [db |-> r.db, raised |-> WrapAll(500), content |-> NoContent]
        ELSE [db |-> r.db, raised |-> 0,
              content |-> [data |-> StudySpotRead(r.value.v), links |-> CreateLinks(spot_id)]]

\* generate_etag(data): the MD5 digest of data, taken as different for
\* different data
generate_etag(data) == <<"md5">> \o data

\* f"{spot['id']}-{spot.get('updated_at') or ''}"
etag_source(spot) == <<spot.id, spot.updated_at>>

\* the If-None-Match header is absent
NoHeader == <<"None">>

\* GET /studyspots/{studyspot_id} with the If-None-Match header
\* if_none_match.  response: the status of the Response object the handler
\* returns in place of a value (0: it returns a value); etag: the ETag
\* header the handler sets.
get_studyspot(db, studyspot_id, if_none_match, dbfail) ==
    LET r == execute_query(db, <<SelectJoin(studyspot_id)>>, TRUE, 0, dbfail)
        etag == generate_etag(etag_source(r.value.v))
    IN  IF r.raised # 0
        THEN [db |-> r.db, raised |-> WrapAll(r.raised), content |-> NoContent,
              response |-> 0, etag |-> NoHeader]
        ELSE IF if_none_match = etag
        THEN [db |-> r.db, raised |-> 0, content |-> NoContent, response |-> 304, etag |-> etag]
        ELSE IF AddressReadRaises(r.value.v)
        THEN [db |-> r.db, raised |-> WrapAll(500), content |-> NoContent,
              response |-> 0, etag |-> NoHeader]
        ELSE [db |-> r.db, raised |-> 0, response |-> 0, etag |-> etag,
              content |-> [data |-> StudySpotRead(r.value.v), links |-> SelfLinks(studyspot_id)]]

\* faulty variant: the DELETE statements have no WHERE clause
delete_studyspot_unfiltered(db, studyspot_id, t, dbfail) ==
    [db |-> IF dbfail THEN db ELSE [studyspots |-> <<>>, hours |-> <<>>],
     raised |-> WrapAll(IF dbfail THEN 500 ELSE 0),
     content |-> NoContent]

\* DELETE /studyspots/{studyspot_id}: "if spot == 0: raise 404" compares the
\* value execute_query returned with 0.
delete_studyspot(db, studyspot_id, t, dbfail) ==
    LET queries == <<[stmt |-> "DELETE hours", id |-> studyspot_id],
                     [stmt |-> "DELETE studyspots", id |-> studyspot_id]>>
        r == execute_query(db, queries, FALSE, t, dbfail)
        notfound == r.raised = 0 /\ r.value.kind = "item" /\ r.value.v = 0
    IN  [db |-> r.db,
         raised |-> WrapAll(IF notfound THEN 404 ELSE r.raised),
         content |-> NoContent]

\* ------------------------------------------------------------ GET /studyspots
\* request.query_params is the sequence of the (key, value) pairs of the
\* query string, decoded.  The value the handler receives for parameter k:
\* None when the query string does not hold k.
HasParam(query_params, k) == \E i \in DOMAIN query_params : query_params[i][1] = k
Param(query_params, k) ==
    IF HasParam(query_params, k)
    THEN query_params[CHOOSE i \in DOMAIN query_params :
                          /\ query_params[i][1] = k
                          /\ \A j \in DOMAIN query_params : query_params[j][1] = k => j <= i][2]
    ELSE NULL

\* int and bool query parameters, and str() of an int
IntOf(v) ==
    CASE v = "-1" -> 0 - 1 [] v = "0" -> 0 [] v = "1" -> 1 [] v = "2" -> 2 [] v = "3" -> 3
      [] v = "4" -> 4 [] v = "5" -> 5 [] v = "10" -> 10
StrOf(n) ==
    CASE n = 0 - 1 -> "-1" [] n = 0 -> "0" [] n = 1 -> "1" [] n = 2 -> "2" [] n = 3 -> "3"
      [] n = 4 -> "4" [] n = 5 -> "5" [] n = 6 -> "6" [] n = 10 -> "10"
\* The texts a bool parameter reads as true: 1, t, y, on, yes and true in
\* any mix of capitals and small letters.
TrueTexts ==
    {"1",
     "T", "t",
     "Y", "y",
     "ON", "On", "oN", "on",
     "YES", "YEs", "YeS", "Yes", "yES", "yEs", "yeS", "yes",
     "TRUE", "TRUe", "TRuE", "TRue", "TrUE", "TrUe", "TruE", "True", "tRUE", "tRUe",
     "tRuE", "tRue", "trUE", "trUe", "truE", "true"}
BoolOf(v) == v \in TrueTexts

\* page: int = 1, page_size: int = 10
PageOf(query_params) ==
    IF HasParam(query_params, "page") THEN IntOf(Param(query_params, "page")) ELSE 1
PageSizeOf(query_params) ==
    IF HasParam(query_params, "page_size") THEN IntOf(Param(query_params, "page_size")) ELSE 10

\* The clauses list_studyspots appends for the request, each with its
\* bound parameter ("if name:" and "if refreshments:" skip the empty
\* string, "if open_now:" skips false; wifi and outlets are tested with
\* "is not None").
ListWhere(query_params, current_day, current_time) ==
    LET P(k) == Param(query_params, k)
        Truthy(k) == HasParam(query_params, k) /\ P(k) # ""
        clauses ==
            {c \in {"name", "neighborhood", "seating", "refreshments", "environment", "open_day"} :
                Truthy(c)}
            \cup (IF HasParam(query_params, "wifi") THEN {"wifi_available"} ELSE {})
            \cup (IF HasParam(query_params, "outlets") THEN {"outlets"} ELSE {})
            \cup (IF HasParam(query_params, "open_now") /\ BoolOf(P("open_now"))
                  THEN {"open_now", "current_time"} ELSE {})
    IN  [c \in clauses |->
            CASE c = "name" -> Wrapped(P("name"))
              [] c = "refreshments" -> Wrapped(P("refreshments"))
              [] c = "wifi_available" -> BoolOf(P("wifi"))
              [] c = "outlets" -> BoolOf(P("outlets"))
              [] c = "open_now" -> current_day
              [] c = "current_time" -> current_time
              [] OTHER -> P(c)]

\* dict(request.query_params) with key k set to v: in place when the
\* dict holds k, at the end otherwise
RECURSIVE DictOf(_)
DictOf(query_params) ==
    IF query_params = <<>> THEN <<>>
    ELSE LET n == Len(query_params)
             init == DictOf(SubSeq(query_params, 1, n - 1))
             k == query_params[n][1]
         IN  IF \E i \in DOMAIN init : init[i][1] = k
             THEN [i \in DOMAIN init |-> IF init[i][1] = k THEN query_params[n] ELSE init[i]]
             ELSE Append(init, query_params[n])
DictSet(dict, k, v) ==
    IF \E i \in DOMAIN dict : dict[i][1] = k
    THEN [i \in DOMAIN dict |-> IF dict[i][1] = k THEN <<k, v>> ELSE dict[i]]
    ELSE Append(dict, <<k, v>>)

\* "&".join(f"{k}={v}" ...), as characters
RECURSIVE JoinPairs(_)
JoinPairs(dict) ==
    IF dict = <<>> THEN <<>>
    ELSE LET pair == Chars(dict[1][1]) \o <<"=">> \o Chars(dict[1][2]) IN
         IF Len(dict) = 1 THEN pair ELSE pair \o <<"&">> \o JoinPairs(Tail(dict))

\* build_url(page_number, page_size, request): the characters of
\* f"{request.url.path}?{query_string}"
build_url(page_number, page_size, query_params) ==
    LET dict == DictSet(DictSet(DictOf(query_params), "page", StrOf(page_number)),
                        "page_size", StrOf(page_size))
    IN  <<"/studyspots", "?">> \o JoinPairs(dict)

\* a link whose "rel" is None
NoUrl == <<"None">>

\* the "links" list of one item of the list response
ListLinks(id, page, page_size, total_pages, query_params) ==
    [pytype |-> "list",
     items |-> <<[href |-> "self", rel |-> id, type |-> "GET"],
                 [href |-> "first", rel |-> build_url(1, page_size, query_params), type |-> "GET"],
                 [href |-> "prev",
                  rel |-> IF page > 1 THEN build_url(page - 1, page_size, query_params) ELSE NoUrl,
                  type |-> "GET"],
                 [href |-> "next",
                  rel |-> IF page < total_pages
                          THEN build_url(page + 1, page_size, query_params) ELSE NoUrl,
                  type |-> "GET"],
                 [href |-> "last", rel |-> build_url(total_pages, page_size, query_params),
                  type |-> "GET"]>>]

\* faulty variant: integer division
CeilFloor(total_len, page_size) == total_len \div page_size

\* math.ceil(total_len / page_size), page_size > 0
Ceil(total_len, page_size) == (total_len + page_size - 1) \div page_size
TotalPages(total_len, page_size) ==
    IF Ceil(total_len, page_size) > 1 THEN Ceil(total_len, page_size) ELSE 1

\* The page query of GET /studyspots, the first of its two transactions.
\* order: the order in which the database yields the rows that satisfy the
\* WHERE clause.  A negative LIMIT or OFFSET is a statement error, and a
\* page without rows makes execute_query raise 404.
PageQuery(db, query_params, current_day, current_time, order, dbfail) ==
    LET page_size == PageSizeOf(query_params)
        offset == (PageOf(query_params) - 1) * page_size
    IN  execute_query(db, <<[stmt |-> "SELECT page",
                             where |-> ListWhere(query_params, current_day, current_time),
                             order |-> order, page_size |-> page_size, offset |-> offset]>>,
                      FALSE, 0, dbfail \/ page_size < 0 \/ offset < 0)

\* GET /studyspots.  The page query and the count query run in two
\* transactions: the first reads db, the second the tables as they are
\* later, and each may fail (dbfail, later_fail).  Every exception leaves
\* as 500.
list_studyspots(db, later, query_params, current_day, current_time, order, dbfail, later_fail) ==
    LET page == PageOf(query_params)
        page_size == PageSizeOf(query_params)
        where == ListWhere(query_params, current_day, current_time)
        base == PageQuery(db, query_params, current_day, current_time, order, dbfail)
        results == IF base.value.kind = "item" THEN <<base.value.v>> ELSE base.value.v
        count == execute_query(later, <<[stmt |-> "SELECT COUNT", where |-> where]>>,
                               FALSE, 0, later_fail)
        total_len == count.value.v.total
        total_pages == TotalPages(total_len, page_size)
    IN  IF base.raised # 0
        THEN [db |-> db, raised |-> WrapAll(base.raised), content |-> NoContent]
        ELSE IF count.raised # 0
        THEN [db |-> db, raised |-> WrapAll(count.raised), content |-> NoContent]
        ELSE IF page_size = 0
        THEN [db |-> db, raised |-> WrapAll(500), content |-> NoContent]
        ELSE IF \E i \in 1..Len(results) : AddressReadRaises(results[i])
        THEN [db |-> db, raised |-> WrapAll(500), content |-> NoContent]
        ELSE [db |-> db, raised |-> 0,
              content |->
                  [pytype |-> "list",
                   items |-> [i \in 1..Len(results) |->
                                 [data |-> StudySpotRead(results[i]),
                                  links |-> ListLinks(results[i].id, page, page_size,
                                                      total_pages, query_params)]]]]


\* The query parameters of PATCH that set columns of studyspots / of hours.
PatchSpotParams == {"name", "street", "city", "neighborhood", "wifi_available",
                    "wifi_network", "outlets", "seating", "refreshments", "environment"}
PatchParams == PatchSpotParams \cup HourCols

\* faulty variant: the optional text columns are set without the "is not
\* None" test, to None when they are not supplied
FieldsStudyspotsNulls(patch, geo) ==
    [c \in (DOMAIN patch \cap PatchSpotParams) \cup {"wifi_network", "refreshments"} |->
        IF c \notin DOMAIN patch THEN NULL
        ELSE IF c = "environment" THEN JsonEnv(patch[c]) ELSE patch[c]]

\* faulty variant: a new street is stored without its geocoded coordinates
FieldsStudyspotsNoGeocode(patch, geo) ==
    [c \in DOMAIN patch \cap PatchSpotParams |->
        IF c = "environment" THEN JsonEnv(patch[c]) ELSE patch[c]]

\* SET clause for studyspots: the supplied columns and, with street, the
\* geocoded latitude, longitude and postal_code.
FieldsStudyspots(patch, geo) ==
    LET direct == [c \in DOMAIN patch \cap PatchSpotParams |->
                      IF c = "environment" THEN JsonEnv(patch[c]) ELSE patch[c]]
    IN  IF "street" \in DOMAIN patch
        THEN [c \in DOMAIN direct \cup {"latitude", "longitude", "postal_code"} |->
                 IF c \in DOMAIN direct THEN direct[c] ELSE geo[c]]
        ELSE direct

\* faulty variant: the loop over the days without its "is not None" tests
FieldsHoursUnguarded(patch) == [c \in HourCols |-> IF c \in DOMAIN patch THEN patch[c] ELSE NULL]

\* SET clause for hours
FieldsHours(patch) == [c \in DOMAIN patch \cap HourCols |-> patch[c]]

\* PATCH /studyspots/{studyspot_id}; patch maps each supplied query
\* parameter to its value.
update_studyspot(db, studyspot_id, patch, t, gfail, dbfail) ==
    LET geo == IF "street" \in DOMAIN patch
               THEN get_geocode(patch["street"], "New York", "NY", gfail)
               ELSE [raised |-> FALSE]
        fields_studyspots == FieldsStudyspots(patch, geo)
        fields_hours == FieldsHours(patch)
        queries ==
            (IF DOMAIN fields_studyspots # {}
             THEN <<[stmt |-> "UPDATE studyspots", id |-> studyspot_id, set |-> fields_studyspots]>>
             ELSE <<>>)
            \o (IF DOMAIN fields_hours # {}
                THEN <<[stmt |-> "UPDATE hours", id |-> studyspot_id, set |-> fields_hours],
                       [stmt |-> "UPDATE studyspots", id |-> studyspot_id, set |-> <<>>]>>
                ELSE <<>>)
            \o <<SelectJoin(studyspot_id)>>
        r == execute_query(db, queries, TRUE, t, dbfail)
    IN  IF geo.raised
        THEN [db |-> db, raised |-> WrapOther(500), content |-> [detail |-> geo.error]]
        ELSE IF DOMAIN fields_hours = {} /\ DOMAIN fields_studyspots = {}
        THEN [db |-> db, raised |-> WrapOther(400), content |-> NoContent]
        ELSE IF r.raised # 0
        THEN [db |-> r.db, raised |-> WrapOther(r.raised), content |-> NoContent]
        ELSE IF AddressReadRaises(r.value.v)
        THEN [db |-> r.db, raised |-> WrapOther(500), content |-> NoContent]
        ELSE [db |-> r.db, raised |-> 0,
              content |-> [data |-> StudySpotRead(r.value.v), links |-> SelfLinks(studyspot_id)]]

\* ------------------------------------------------------------- geocode jobs
Pending == [status |-> "pending", result |-> [kind |-> "None"]]

\* faulty variant: the handler registers the job as already running
post_studyspot_geocode_running(jobmap, job_id) ==
    Put(jobmap, job_id, [status |-> "running", result |-> [kind |-> "None"]])

\* POST /studyspots/{studyspot_id}/geocode: the job map after registering
\* job_id
post_studyspot_geocode(jobmap, job_id) == Put(jobmap, job_id, Pending)

\* faulty variant: a job that has ended is reported as not found
get_job_status_expiring(jobmap, later, job_id) ==
    IF job_id \notin DOMAIN jobmap \/ jobmap[job_id].status \in {"complete", "failed"}
    THEN [raised |-> 404, content |-> NoContent]
    ELSE [raised |-> 0,
          content |-> [job_id |-> job_id, status |-> jobmap[job_id].status,
                       result |-> later[job_id].result]]

\* GET /jobs/{job_id}.  The handler looks the job up and reads
\* job["status"] in the job map as it is then (jobmap), and job["result"]
\* in the job map as it is later: the task of the job runs on another
\* thread and assigns to both in between.
get_job_status(jobmap, later, job_id) ==
    IF job_id \notin DOMAIN jobmap
    THEN [raised |-> 404, content |-> NoContent]
    ELSE [raised |-> 0,
          content |-> [job_id |-> job_id, status |-> jobmap[job_id].status,
                       result |-> later[job_id].result]]

\* run_geocode_job, first transaction and geocoding: the locals after
\* "SELECT street, city, state" and get_geocode, or the exception raised.
JobRead(db, studyspot_id, gfail, dbfail) ==
    LET r == execute_query(db, <<[stmt |-> "SELECT address", id |-> studyspot_id]>>, TRUE, 0, dbfail)
        spot == r.value.v
        geo == get_geocode(spot.street, spot.city, spot.state, gfail)
    IN  IF r.raised # 0
        THEN [raised |-> TRUE, error |-> IF r.raised = 404 THEN "not found" ELSE "DB Error"]
        ELSE geo

\* faulty variant: the UPDATE is committed although the call raises
JobWriteNoRollback(db, studyspot_id, loc, t, dbfail) ==
    LET set == [latitude |-> loc.latitude, longitude |-> loc.longitude]
        r == execute_query(db, <<[stmt |-> "UPDATE studyspots", id |-> studyspot_id, set |-> set]>>,
                           FALSE, t, FALSE)
    IN  IF dbfail THEN [r EXCEPT !.raised = 500] ELSE r

\* run_geocode_job, second transaction: UPDATE studyspots SET latitude,
\* longitude, updated_at = NOW() [, postal_code] WHERE id
JobWrite(db, studyspot_id, loc, t, dbfail) ==
    LET set == IF loc.postal_code # NULL
               THEN [latitude |-> loc.latitude, longitude |-> loc.longitude,
                     postal_code |-> loc.postal_code]
               ELSE [latitude |-> loc.latitude, longitude |-> loc.longitude]
    IN  execute_query(db, <<[stmt |-> "UPDATE studyspots", id |-> studyspot_id, set |-> set]>>,
                      FALSE, t, dbfail)

\* the result a job reports on success / on failure
JobResult(loc) ==
    [kind |-> "dict", latitude |-> loc.latitude, longitude |-> loc.longitude,
     postal_code |-> loc.postal_code, message |-> "Geocode successful"]
JobError(loc) == [kind |-> "dict", error |-> loc.error]

\* ------------------------------------------------------------------- actions
\* what the environment did during a step: the database raised, the maps
\* client raised
Fail(dbfail, gfail) == [db |-> dbfail, geo |-> gfail]

\* last: the step taken last.  For a request: the handler (op), the id in
\* its path, its body or query parameters (req), what the environment did
\* (fail), the status the handler raised (0: it returned), the status the
\* client received and the value the handler returned.  For a statement of
\* a background task: the task and its job id.
NoRequest == [op |-> "none", id |-> 0, req |-> NoContent, fail |-> Fail(FALSE, FALSE),
              raised |-> 0, status |-> 0, content |-> NoContent]

Answer(op, id, req, fail, raised, content, declared, response_model) ==
    [op |-> op, id |-> id, req |-> req, fail |-> fail, raised |-> raised,
     status |-> HttpStatus(raised, content, declared, response_model), content |-> content]

TaskStep(job_id, fail) ==
    [op |-> "run_geocode_job", id |-> job_id, req |-> NoContent, fail |-> fail,
     raised |-> 0, status |-> 0, content |-> NoContent]

Init ==
    /\ studyspots = <<>>
    /\ hours = <<>>
    /\ jobs = <<>>
    /\ task = <<>>
    /\ nextId = 1
    /\ npatch = 0
    /\ now = 1
    /\ last = NoRequest
    /\ txn = <<>>
    /\ listing = <<>>
    /\ polling = <<>>

\* A request whose transaction committed takes one tick of the clock.
Commit(h, committed) ==
    /\ studyspots' = h.db.studyspots
    /\ hours' = h.db.hours
    /\ now' = IF committed THEN now + 1 ELSE now

Create(studyspot, dbfail, max) ==
    /\ nextId <= max
    /\ \E h \in {create_studyspot(Db, studyspot, nextId, now, dbfail)} :
        /\ Commit(h, h.raised = 0)
        /\ nextId' = IF h.raised = 0 THEN nextId + 1 ELSE nextId
        /\ last' = Answer("create", nextId, studyspot, Fail(dbfail, FALSE), h.raised, h.content, 201, TRUE)
    /\ UNCHANGED <<jobs, task, npatch, txn, listing, polling>>

Get(studyspot_id, dbfail) ==
    /\ \E h \in {get_studyspot(Db, studyspot_id, NoHeader, dbfail)} :
        /\ last' = Answer("get", studyspot_id, NoContent, Fail(dbfail, FALSE), h.raised, h.content, 200, TRUE)
    /\ UNCHANGED <<studyspots, hours, jobs, task, nextId, npatch, now, txn, listing, polling>>

\* GET with an If-None-Match header; a Response object the handler returns
\* is sent as it is, with no validation against the response model
GetIfNoneMatch(studyspot_id, if_none_match, dbfail) ==
    /\ \E h \in {get_studyspot(Db, studyspot_id, if_none_match, dbfail)} :
        last' = [op |-> "get", id |-> studyspot_id, req |-> [if_none_match |-> if_none_match],
                 fail |-> Fail(dbfail, FALSE), raised |-> h.raised,
                 status |-> IF h.response # 0 THEN h.response
                            ELSE HttpStatus(h.raised, h.content, 200, TRUE),
                 content |-> h.content, etag |-> h.etag]
    /\ UNCHANGED <<studyspots, hours, jobs, task, nextId, npatch, now, txn, listing, polling>>

\* PATCH with nothing else running between the statements of its
\* transaction
Patch(studyspot_id, patch, gfail, dbfail, max) ==
    /\ npatch < max
    /\ studyspot_id \notin DOMAIN txn
    /\ \E h \in {update_studyspot(Db, studyspot_id, patch, now, gfail, dbfail)} :
        /\ Commit(h, h.db # Db)
        /\ npatch' = IF h.db # Db THEN npatch + 1 ELSE npatch
        /\ last' = Answer("patch", studyspot_id, patch, Fail(dbfail, gfail), h.raised, h.content, 200, TRUE)
    /\ UNCHANGED <<jobs, task, nextId, txn, listing, polling>>

\* DELETE waits for an open transaction that holds a row of the spot; it
\* fails (dbfail) when the session raises or when the database aborts it to
\* end a deadlock with that transaction.
Delete(studyspot_id, dbfail) ==
    /\ studyspot_id \notin DOMAIN txn
    /\ \E h \in {delete_studyspot(Db, studyspot_id, now, dbfail)} :
        /\ Commit(h, h.db # Db)
        /\ last' = Answer("delete", studyspot_id, NoContent, Fail(dbfail, FALSE), h.raised, h.content, 204, FALSE)
    /\ UNCHANGED <<jobs, task, nextId, npatch, txn, listing, polling>>

GetHealth(echo, hostfail) ==
    /\ \E h \in {get_health_no_path(echo, hostfail)} :
        last' = [op |-> "health", id |-> 0, req |-> [echo |-> echo],
                 fail |-> [db |-> FALSE, geo |-> FALSE, host |-> hostfail],
                 raised |-> h.raised,
                 status |-> IF h.raised # 0 THEN h.raised
                            ELSE IF ~Health(h.content) THEN 500 ELSE 200,
                 content |-> h.content]
    /\ UNCHANGED <<studyspots, hours, jobs, task, nextId, npatch, now, txn, listing, polling>>

\* job ids are issued in order: the next one is the number of jobs plus one
PostGeocode(studyspot_id, max) ==
    /\ Cardinality(DOMAIN jobs) < max
    /\ LET job_id == Cardinality(DOMAIN jobs) + 1 IN
        /\ jobs' = post_studyspot_geocode(jobs, job_id)
        /\ task' = Put(task, job_id, [pc |-> "scheduled", studyspot_id |-> studyspot_id,
                                      loc |-> [raised |-> FALSE]])
        /\ last' = Answer("post_geocode", studyspot_id, NoContent, Fail(FALSE, FALSE), 0,
                          [message |-> "Geocoding started.", job_id |-> job_id], 202, FALSE)
    /\ UNCHANGED <<studyspots, hours, nextId, npatch, now, txn, listing, polling>>

\* what last records of a GET /studyspots request answered with h
ListAnswer(h, query_params, current_day, current_time, dbfail) ==
    [op |-> "list", id |-> 0,
     req |-> [query_params |-> query_params, current_day |-> current_day,
              current_time |-> current_time],
     fail |-> Fail(dbfail, FALSE), raised |-> h.raised,
     status |-> IF h.raised # 0 THEN h.raised
                ELSE IF ~StudySpotResponseList(h.content) THEN 500 ELSE 200,
     content |-> h.content]

\* GET /studyspots at the wall-clock day and time of the server, up to the
\* end of its first transaction: the page query runs on the tables as they
\* are now, the database yielding the matching rows in some order.  When
\* the query raises, the handler answers; otherwise other requests commit
\* before the count query runs.  A client that walks the pages sends the
\* request holding the page it was answered last (held).
ListBegin(query_params, current_day, current_time, dbfail) ==
    /\ listing = <<>>
    /\ \E order \in Orders(Matching(Db, ListWhere(query_params, current_day, current_time))) :
          IF PageQuery(Db, query_params, current_day, current_time, order, dbfail).raised # 0
          THEN /\ last' = ListAnswer(list_studyspots(Db, Db, query_params, current_day,
                                                     current_time, order, dbfail, FALSE),
                                     query_params, current_day, current_time, dbfail)
               /\ listing' = listing
          ELSE /\ last' = [NoRequest EXCEPT !.op = "list begin"]
               /\ listing' = <<[query_params |-> query_params, current_day |-> current_day,
                                current_time |-> current_time, order |-> order, db |-> Db,
                                held |-> IF last.op = "list" THEN last ELSE NoRequest]>>
    /\ UNCHANGED <<studyspots, hours, jobs, task, nextId, npatch, now, txn, polling>>

\* the count query runs on the tables as they are now, and the handler
\* builds its response
ListEnd(dbfail) ==
    /\ listing # <<>>
    /\ \E l \in {listing[1]} :
          last' = ListAnswer(list_studyspots(l.db, Db, l.query_params, l.current_day,
                                             l.current_time, l.order, FALSE, dbfail),
                             l.query_params, l.current_day, l.current_time, dbfail)
    /\ listing' = <<>>
    /\ UNCHANGED <<studyspots, hours, jobs, task, nextId, npatch, now, txn, polling>>

\* GET /jobs/{job_id} up to its read of job["status"]: an id the job map
\* does not hold is answered 404; otherwise the task of the job runs on
\* before the handler reads job["result"].
GetJobBegin(job_id) ==
    /\ polling = <<>>
    /\ \E h \in {get_job_status(jobs, jobs, job_id)} :
          IF h.raised # 0
          THEN /\ last' = Answer("get_job", job_id, NoContent, Fail(FALSE, FALSE), h.raised,
                                 h.content, 200, FALSE)
               /\ polling' = polling
          ELSE /\ last' = [NoRequest EXCEPT !.op = "get_job begin", !.id = job_id]
               /\ polling' = <<[job_id |-> job_id,
                                jobs |-> [j \in {job_id} |-> [status |-> jobs[j].status]]]>>
    /\ UNCHANGED <<studyspots, hours, jobs, task, nextId, npatch, now, txn, listing>>

\* the handler reads job["result"] in the job map as it is now, and
\* answers
GetJobEnd ==
    /\ polling # <<>>
    /\ \E h \in {get_job_status(polling[1].jobs, jobs, polling[1].job_id)} :
          last' = Answer("get_job", polling[1].job_id, NoContent, Fail(FALSE, FALSE), h.raised,
                         h.content, 200, FALSE)
    /\ polling' = <<>>
    /\ UNCHANGED <<studyspots, hours, jobs, task, nextId, npatch, now, txn, listing>>

\* An UPDATE of a row of studyspots waits while an open transaction has
\* updated that row: the PATCH in txn did so with its first statement when
\* it supplies a column of studyspots (with hours columns only, its first
\* statement is UPDATE hours and the studyspots row is free until the
\* statement that sets updated_at).
SpotRowLocked(studyspot_id) ==
    /\ studyspot_id \in DOMAIN txn
    /\ studyspot_id \in DOMAIN studyspots
    /\ DOMAIN txn[studyspot_id].patch \cap PatchSpotParams # {}

\* PATCH, its transaction taken in two steps so that other transactions
\* run inside it: the first statement begins the transaction, which fixes
\* what NOW() returns in all its statements; the remaining statements and
\* the commit follow.  Rows the first statement updated are locked in
\* between and other rows are read as committed when each statement runs,
\* so the statements have the effect they have when run at the second step.
\* The transaction may fail (dbfail) and is then rolled back: the session
\* raises, or the database aborts it to end a deadlock with a DELETE, which
\* locks the hours row and then the studyspots row where a PATCH of both
\* tables locks them the other way round.
PatchBegin(studyspot_id, patch, max) ==
    /\ npatch < max
    /\ studyspot_id \notin DOMAIN txn
    /\ DOMAIN patch # {}
    /\ "street" \notin DOMAIN patch
    /\ txn' = Put(txn, studyspot_id, [patch |-> patch, begun |-> now])
    /\ now' = now + 1
    /\ npatch' = npatch + 1
    /\ last' = [TaskStep(studyspot_id, Fail(FALSE, FALSE)) EXCEPT !.op = "update_studyspot begin"]
    /\ UNCHANGED <<studyspots, hours, jobs, task, nextId, listing, polling>>

PatchEnd(studyspot_id, dbfail) ==
    /\ studyspot_id \in DOMAIN txn
    /\ \E patch \in {txn[studyspot_id].patch} :
       \E h \in {update_studyspot(Db, studyspot_id, patch, txn[studyspot_id].begun, FALSE, dbfail)} :
           /\ Commit(h, h.db # Db)
           /\ last' = Answer("patch", studyspot_id, patch, Fail(dbfail, FALSE), h.raised,
                             h.content, 200, TRUE)
    /\ txn' = Remove(txn, studyspot_id)
    /\ UNCHANGED <<jobs, task, nextId, npatch, listing, polling>>

\* run_geocode_job(job_id, studyspot_id), one statement or transaction at a
\* time; other requests and other jobs run between the steps.
JobStart(job_id) ==
    /\ job_id \in DOMAIN task
    /\ task[job_id].pc = "scheduled"
    /\ jobs' = [jobs EXCEPT ![job_id].status = "running"]
    /\ task' = [task EXCEPT ![job_id].pc = "select"]
    /\ last' = TaskStep(job_id, Fail(FALSE, FALSE))
    /\ UNCHANGED <<studyspots, hours, nextId, npatch, now, txn, listing, polling>>

JobSelect(job_id, gfail, dbfail) ==
    /\ job_id \in DOMAIN task
    /\ task[job_id].pc = "select"
    /\ \E loc \in {JobRead(Db, task[job_id].studyspot_id, gfail, dbfail)} :
        task' = [task EXCEPT ![job_id].loc = loc,
                             ![job_id].pc = IF loc.raised THEN "except" ELSE "update"]
    /\ last' = TaskStep(job_id, Fail(dbfail, gfail))
    /\ UNCHANGED <<studyspots, hours, jobs, nextId, npatch, now, txn, listing, polling>>

JobUpdate(job_id, dbfail) ==
    /\ job_id \in DOMAIN task
    /\ task[job_id].pc = "update"
    /\ ~SpotRowLocked(task[job_id].studyspot_id)
    /\ \E r \in {JobWrite(Db, task[job_id].studyspot_id, task[job_id].loc, now, dbfail)} :
        /\ Commit(r, r.db # Db)
        /\ task' = [task EXCEPT ![job_id].pc = IF r.raised # 0 THEN "except" ELSE "complete",
                                ![job_id].loc = IF r.raised # 0
                                                THEN [raised |-> TRUE, error |-> "DB Error"]
                                                ELSE @]
    /\ last' = TaskStep(job_id, Fail(dbfail, FALSE))
    /\ UNCHANGED <<jobs, nextId, npatch, txn, listing, polling>>

JobCompleteStatus(job_id) ==
    /\ job_id \in DOMAIN task
    /\ task[job_id].pc = "complete"
    /\ jobs' = [jobs EXCEPT ![job_id].status = "complete"]
    /\ task' = [task EXCEPT ![job_id].pc = "complete_result"]
    /\ last' = TaskStep(job_id, Fail(FALSE, FALSE))
    /\ UNCHANGED <<studyspots, hours, nextId, npatch, now, txn, listing, polling>>

JobCompleteResult(job_id) ==
    /\ job_id \in DOMAIN task
    /\ task[job_id].pc = "complete_result"
    /\ jobs' = [jobs EXCEPT ![job_id].result = JobResult(task[job_id].loc)]
    /\ task' = [task EXCEPT ![job_id].pc = "done"]
    /\ last' = TaskStep(job_id, Fail(FALSE, FALSE))
    /\ UNCHANGED <<studyspots, hours, nextId, npatch, now, txn, listing, polling>>

\* faulty variant: the except clause leaves the task without recording the
\* failure
JobFailStatusLost(job_id) ==
    /\ job_id \in DOMAIN task
    /\ task[job_id].pc = "except"
    /\ jobs' = jobs
    /\ task' = [task EXCEPT ![job_id].pc = "done"]
    /\ last' = TaskStep(job_id, Fail(FALSE, FALSE))
    /\ UNCHANGED <<studyspots, hours, nextId, npatch, now, txn, listing, polling>>

JobFailStatus(job_id) ==
    /\ job_id \in DOMAIN task
    /\ task[job_id].pc = "except"
    /\ jobs' = [jobs EXCEPT ![job_id].status = "failed"]
    /\ task' = [task EXCEPT ![job_id].pc = "failed_result"]
    /\ last' = TaskStep(job_id, Fail(FALSE, FALSE))
    /\ UNCHANGED <<studyspots, hours, nextId, npatch, now, txn, listing, polling>>

JobFailResult(job_id) ==
    /\ job_id \in DOMAIN task
    /\ task[job_id].pc = "failed_result"
    /\ jobs' = [jobs EXCEPT ![job_id].result = JobError(task[job_id].loc)]
    /\ task' = [task EXCEPT ![job_id].pc = "done"]
    /\ last' = TaskStep(job_id, Fail(FALSE, FALSE))
    /\ UNCHANGED <<studyspots, hours, nextId, npatch, now, txn, listing, polling>>

\* the next statement of the task of job_id, if the task was scheduled and
\* has not ended
run_geocode_job(job_id) ==
    \/ JobStart(job_id)
    \/ \E gfail \in BOOLEAN, dbfail \in BOOLEAN : JobSelect(job_id, gfail, dbfail)
    \/ \E dbfail \in BOOLEAN : JobUpdate(job_id, dbfail)
    \/ JobCompleteStatus(job_id)
    \/ JobCompleteResult(job_id)
    \/ JobFailStatus(job_id)
    \/ JobFailResult(job_id)

\* --------------------------------------------------------------- requests
\* The PATCH requests of the full system: none, one or several parameters
\* supplied, a street the maps service resolves and streets it does not.
PatchRequests ==
    {<<>>,
     [name |-> "Renamed"],
     [street |-> "184 Duane St"],
     [street |-> "Nowhere Rd"],
     [name |-> "Renamed", sun_end |-> "16:00"]}

\* get_geocode is called, and so can raise, only when street is supplied
GeoFailures(patch) == IF "street" \in DOMAIN patch THEN BOOLEAN ELSE {FALSE}

\* The requests of the API, without geocode jobs.
Next ==
    \/ \E studyspot \in Payloads, dbfail \in BOOLEAN : Create(studyspot, dbfail, MaxSpots)
    \/ \E id \in SpotIds, dbfail \in BOOLEAN : Get(id, dbfail)
    \/ \E id \in SpotIds, patch \in PatchRequests, dbfail \in BOOLEAN :
          \E gfail \in GeoFailures(patch) : Patch(id, patch, gfail, dbfail, MaxPatches)
    \/ \E id \in SpotIds, dbfail \in BOOLEAN : Delete(id, dbfail)

Spec == Init /\ [][Next]_vars

\* Geocode jobs.  The job map lives in the process and the tables in the
\* database, so a process starts with no job and with the spots stored
\* before: here spot 1.  Beside the jobs runs the request that removes what
\* a job reads and writes, DELETE; after it spot 1 is an id no spot has.
InitJobs ==
    /\ \E studyspot \in Payloads :
          \E h \in {create_studyspot([studyspots |-> <<>>, hours |-> <<>>], studyspot, 1, 1, FALSE)} :
              studyspots = h.db.studyspots /\ hours = h.db.hours
    /\ jobs = <<>>
    /\ task = <<>>
    /\ nextId = 2
    /\ npatch = 0
    /\ now = 2
    /\ last = NoRequest
    /\ txn = <<>>
    /\ listing = <<>>
    /\ polling = <<>>

NextJobs ==
    \/ Delete(1, FALSE)
    \/ PostGeocode(1, MaxJobs)
    \/ \E job_id \in JobIds : GetJobBegin(job_id)
    \/ GetJobEnd
    \/ \E job_id \in JobIds : run_geocode_job(job_id)

SpecJobs == InitJobs /\ [][NextJobs]_vars

\* One PATCH parameter at a time, on a stored spot: every parameter of
\* update_studyspot with a value its type admits.
FieldPatches ==
    {[name |-> "Renamed"], [street |-> "184 Duane St"], [street |-> "Nowhere Rd"],
     [city |-> "Brooklyn"], [neighborhood |-> "Harlem"],
     [wifi_available |-> TRUE], [wifi_available |-> FALSE], [wifi_network |-> "Guest"],
     [outlets |-> TRUE], [outlets |-> FALSE], [seating |-> "20+"],
     [refreshments |-> "coffee, pastries"], [environment |-> <<"lively">>]}
    \cup {[c \in {h} |-> "07:30"] : h \in HourCols}

InitPatch ==
    /\ \E studyspot \in Payloads :
          \E h \in {create_studyspot([studyspots |-> <<>>, hours |-> <<>>], studyspot, 1, 1, FALSE)} :
              studyspots = h.db.studyspots /\ hours = h.db.hours
    /\ jobs = <<>>
    /\ task = <<>>
    /\ nextId = 2
    /\ npatch = 0
    /\ now = 2
    /\ last = NoRequest
    /\ txn = <<>>
    /\ listing = <<>>
    /\ polling = <<>>

NextPatch ==
    \E patch \in FieldPatches, dbfail \in BOOLEAN :
        \E gfail \in GeoFailures(patch) : Patch(1, patch, gfail, dbfail, MaxFieldPatches)

SpecPatch == InitPatch /\ [][NextPatch]_vars

\* The scheduled task is run, and each of its calls returns or raises: every
\* statement of a started run_geocode_job is eventually executed.
NextFairJobs ==
    \/ Delete(1, FALSE)
    \/ PostGeocode(1, MaxFairJobs)
    \/ \E job_id \in 1..MaxFairJobs : GetJobBegin(job_id)
    \/ GetJobEnd
    \/ \E job_id \in 1..MaxFairJobs : run_geocode_job(job_id)

FairSpecJobs ==
    /\ InitJobs
    /\ [][NextFairJobs]_vars
    /\ \A job_id \in 1..MaxFairJobs : WF_vars(run_geocode_job(job_id))

\* Sequences of PATCH requests on one stored spot, each supplying some of
\* the parameters.
SeqPatches ==
    {[name |-> "Renamed"], [street |-> "184 Duane St"], [wifi_network |-> "Guest"],
     [environment |-> <<"lively">>], [mon_start |-> "07:30"],
     [refreshments |-> "tea", sun_end |-> "23:00"],
     [street |-> "Nowhere Rd", name |-> "Renamed"],
     [street |-> "Pier 1", mon_start |-> "07:30"]}

NextSeq ==
    \E patch \in SeqPatches, dbfail \in BOOLEAN :
        \E gfail \in GeoFailures(patch) : Patch(1, patch, gfail, dbfail, MaxSeqPatches)

SpecSeq == InitPatch /\ [][NextSeq]_vars

\* Every operation that touches a spot, from the empty store, with the
\* database and the maps service answering: create, PATCH, DELETE and
\* geocode jobs.
NextIds ==
    \/ Create(PayloadFull, FALSE, MaxIdSpots)
    \/ \E id \in 1..MaxIdSpots :
          Patch(id, [street |-> "184 Duane St"], FALSE, FALSE, MaxIdWrites - Cardinality(DOMAIN jobs))
    \/ \E id \in 1..MaxIdSpots : Delete(id, FALSE)
    \/ \E id \in 1..MaxIdSpots : PostGeocode(id, MaxIdWrites - npatch)
    \/ \E job_id \in 1..MaxIdWrites :
          \/ JobStart(job_id)
          \/ JobSelect(job_id, FALSE, FALSE)
          \/ JobUpdate(job_id, FALSE)
          \/ JobCompleteStatus(job_id)
          \/ JobCompleteResult(job_id)
          \/ JobFailStatus(job_id)
          \/ JobFailResult(job_id)

SpecIds == Init /\ [][NextIds]_vars

\* Overlapping transactions on one stored spot: PATCH requests whose
\* transaction other transactions run inside, geocode jobs and DELETE.
ClockPatches ==
    {[name |-> "Renamed"], [mon_start |-> "07:30"], [name |-> "Renamed", sun_end |-> "23:00"]}

InitClock ==
    /\ \E studyspot \in Payloads :
          \E h \in {create_studyspot([studyspots |-> <<>>, hours |-> <<>>], studyspot, 1, 1, FALSE)} :
              studyspots = h.db.studyspots /\ hours = h.db.hours
    /\ jobs = <<>>
    /\ task = <<>>
    /\ nextId = 2
    /\ npatch = 0
    /\ now = 2
    /\ last = NoRequest
    /\ txn = <<>>
    /\ listing = <<>>
    /\ polling = <<>>

NextClock ==
    \/ \E patch \in ClockPatches : PatchBegin(1, patch, MaxClockPatches)
    \/ \E dbfail \in BOOLEAN : PatchEnd(1, dbfail)
    \/ \E dbfail \in BOOLEAN : Delete(1, dbfail)
    \/ PostGeocode(1, MaxClockJobs)
    \/ \E job_id \in 1..MaxClockJobs : run_geocode_job(job_id)

SpecClock == InitClock /\ [][NextClock]_vars

\* GET /studyspots on stores of up to MaxListSpots spots: each filter alone,
\* two filters together, values that hold %, _ and &, and the pages around
\* the last one.
ListFilters ==
    {<<>>,
     <<<<"name", "Library">>>>, <<<<"name", "Park">>>>, <<<<"name", "">>>>,
     <<<<"name", "%">>>>, <<<<"name", "_">>>>, <<<<"name", "R&D">>>>,
     <<<<"neighborhood", "Inwood">>>>,
     <<<<"wifi", "true">>>>, <<<<"wifi", "false">>>>, <<<<"outlets", "false">>>>,
     <<<<"wifi", "True">>>>, <<<<"outlets", "y">>>>,
     <<<<"seating", "11-20">>>>,
     <<<<"refreshments", "on">>>>, <<<<"refreshments", "tea">>>>,
     <<<<"environment", "quiet">>>>, <<<<"environment", "lively">>>>,
     <<<<"open_day", "mon">>>>, <<<<"open_day", "sun">>>>,
     <<<<"open_now", "true">>>>, <<<<"open_now", "false">>>>,
     <<<<"wifi", "true">>, <<"name", "Library">>>>}

ListPaging ==
    {<<>>}
    \cup {<<<<"page", StrOf(page)>>, <<"page_size", StrOf(page_size)>>>> :
            page \in 0..MaxPage, page_size \in (0 - 1)..MaxPageSize}

ListRequests ==
    {filters \o paging : filters \in ListFilters, paging \in ListPaging}
    \cup {<<<<"page", "2">>, <<"name", "Library">>>>}

\* the server's clock matters to a request with open_now only
ListClocks(query_params) ==
    IF HasParam(query_params, "open_now")
    THEN {<<"mon", "12:00">>, <<"mon", "09:00">>, <<"sun", "12:00">>}
    ELSE {<<"mon", "12:00">>}

\* the seed entry, and the other body under a name that holds "&"
ListPayloads == {PayloadFull, [PayloadMin EXCEPT !.name = "R&D"]}

\* A list request changes nothing that a request reads, so the request sent
\* right after the answer to a list request is answered as it is without that
\* earlier request: here, and wherever requests write between list
\* requests, one is sent after the answer to another kind of request; the
\* client that walks the pages is that of SpecOrder.
NextList ==
    \/ \E studyspot \in ListPayloads : Create(studyspot, FALSE, MaxListSpots)
    \/ \E query_params \in ListRequests, dbfail \in BOOLEAN :
          \E clock \in ListClocks(query_params) :
              last.op # "list" /\ ListBegin(query_params, clock[1], clock[2], dbfail)
    \/ \E dbfail \in BOOLEAN : ListEnd(dbfail)

SpecList == Init /\ [][NextList]_vars

\* GET /studyspots for pages of two items, its two transactions apart,
\* while spots are created and the first one is deleted.
PageRequests ==
    {filters \o <<<<"page", page>>, <<"page_size", "2">>>> :
        filters \in {<<>>, <<<<"wifi", "true">>>>}, page \in {"1", "2"}}

NextPages ==
    \/ \E studyspot \in Payloads : Create(studyspot, FALSE, MaxPagedSpots)
    \/ Delete(1, FALSE)
    \/ \E query_params \in PageRequests :
          last.op # "list" /\ ListBegin(query_params, "mon", "12:00", FALSE)
    \/ ListEnd(FALSE)

SpecPages == Init /\ [][NextPages]_vars

\* Two stored spots, and every operation of the API on either of them
\* (DELETE on the first), with the database, the maps service and the host
\* answering.  A list request is answered from its two transactions and a
\* job poll from its two reads, so what is taken between the two halves of
\* a read is what can change its answer: PATCH and DELETE commit between
\* the two transactions of a list request, and the statements of the jobs
\* run between the two reads of a poll.  One read is in progress at a time.
\* A PATCH and a DELETE of the same spot lock its two rows in opposite
\* order, and the database aborts one of the two with an error: either may
\* fail.
InitFrame ==
    /\ \E h1 \in {create_studyspot([studyspots |-> <<>>, hours |-> <<>>], PayloadFull, 1, 1, FALSE)} :
       \E h2 \in {create_studyspot(h1.db, PayloadMin, 2, 2, FALSE)} :
          studyspots = h2.db.studyspots /\ hours = h2.db.hours
    /\ jobs = <<>>
    /\ task = <<>>
    /\ nextId = 3
    /\ npatch = 0
    /\ now = 3
    /\ last = NoRequest
    /\ txn = <<>>
    /\ listing = <<>>
    /\ polling = <<>>

NextFrame ==
    \/ \E id \in 1..2 : listing = <<>> /\ polling = <<>> /\ Get(id, FALSE)
    \/ listing = <<>> /\ polling = <<>> /\ last.op # "list"
          /\ ListBegin(<<>>, "mon", "12:00", FALSE)
    \/ ListEnd(FALSE)
    \/ \E job_id \in 1..MaxFrameWrites : listing = <<>> /\ polling = <<>> /\ GetJobBegin(job_id)
    \/ GetJobEnd
    \/ listing = <<>> /\ polling = <<>> /\ GetHealth(NULL, FALSE)
    \/ \E id \in 1..2 :
          /\ polling = <<>>
          /\ \E dbfail \in BOOLEAN :
                Patch(id, [street |-> "184 Duane St", mon_start |-> "07:30"], FALSE, dbfail,
                      MaxFrameWrites - Cardinality(DOMAIN jobs))
    \/ polling = <<>> /\ \E dbfail \in BOOLEAN : Delete(1, dbfail)
    \/ \E id \in 1..2 : listing = <<>> /\ polling = <<>> /\ PostGeocode(id, MaxFrameWrites - npatch)
    \/ \E job_id \in 1..MaxFrameWrites :
          /\ listing = <<>>
          /\ \/ JobStart(job_id)
             \/ JobSelect(job_id, FALSE, FALSE)
             \/ JobUpdate(job_id, FALSE)
             \/ JobCompleteStatus(job_id)
             \/ JobCompleteResult(job_id)
             \/ JobFailStatus(job_id)
             \/ JobFailResult(job_id)

SpecFrame == InitFrame /\ [][NextFrame]_vars

\* One stored spot; PATCH requests that supply spot columns and hours
\* columns, served in one step (the session may raise) or with a GET served
\* while their transaction is open.
MaxAtomicPatches == 2

AtomicPatches ==
    {[name |-> "Renamed", sun_end |-> "23:00"],
     [wifi_network |-> "Guest", outlets |-> TRUE, mon_start |-> "07:30", mon_end |-> "19:00"]}

NextAtomic ==
    \/ \E patch \in AtomicPatches : PatchBegin(1, patch, MaxAtomicPatches)
    \/ \E dbfail \in BOOLEAN : PatchEnd(1, dbfail)
    \/ \E patch \in AtomicPatches, dbfail \in BOOLEAN : Patch(1, patch, FALSE, dbfail, MaxAtomicPatches)
    \/ Get(1, FALSE)

SpecAtomic == InitClock /\ [][NextAtomic]_vars

\* One stored spot, GET requests with and without an ETag the spot had, has
\* or will have, and the writes to the spot: PATCH and geocode jobs.
MaxEtagWrites == 2

EtagHeaders ==
    {NoHeader} \cup {generate_etag(<<1, t>>) : t \in 1..(MaxEtagWrites + 1)}

NextEtag ==
    \/ \E if_none_match \in EtagHeaders : GetIfNoneMatch(1, if_none_match, FALSE)
    \/ Patch(1, [name |-> "Renamed"], FALSE, FALSE, MaxEtagWrites - Cardinality(DOMAIN jobs))
    \/ PostGeocode(1, MaxEtagWrites - npatch)
    \/ \E job_id \in 1..MaxEtagWrites :
          \/ JobStart(job_id)
          \/ \E gfail \in BOOLEAN : JobSelect(job_id, gfail, FALSE)
          \/ JobUpdate(job_id, FALSE)
          \/ JobCompleteStatus(job_id)
          \/ JobCompleteResult(job_id)
          \/ JobFailStatus(job_id)
          \/ JobFailResult(job_id)

SpecEtag == InitClock /\ [][NextEtag]_vars

\* A store of up to MaxOrderSpots spots that no request changes, and one
\* client that requests the pages of the list one after the other.
MaxOrderSpots == 3

\* the tables after POST /studyspots of each body of payloads in turn
RECURSIVE Created(_)
Created(payloads) ==
    IF payloads = <<>> THEN [studyspots |-> <<>>, hours |-> <<>>]
    ELSE create_studyspot(Created(SubSeq(payloads, 1, Len(payloads) - 1)),
                          payloads[Len(payloads)], Len(payloads), Len(payloads), FALSE).db

InitOrder ==
    /\ \E n \in 0..MaxOrderSpots :
          \E payloads \in [1..n -> Payloads] :
              \E db \in {Created(payloads)} :
                  /\ studyspots = db.studyspots
                  /\ hours = db.hours
                  /\ nextId = n + 1
                  /\ now = n + 1
    /\ jobs = <<>>
    /\ task = <<>>
    /\ npatch = 0
    /\ last = NoRequest
    /\ txn = <<>>
    /\ listing = <<>>
    /\ polling = <<>>

NextOrder ==
    \/ \E query_params \in PageRequests : ListBegin(query_params, "mon", "12:00", FALSE)
    \/ ListEnd(FALSE)

SpecOrder == InitOrder /\ [][NextOrder]_vars

\* Spots with day hours, with hours that run past midnight (the seed data's
\* 08:00-02:00), with a start and no end, and with no hours; list requests
\* with open_now at several times of the server's clock.
MaxOpenSpots == 2

HoursOvernight ==
    [HoursEmpty EXCEPT !.mon_start = "08:00", !.mon_end = "02:00",
                       !.tue_start = "09:00",
                       !.sun_start = "10:00", !.sun_end = "02:00"]

PayloadOvernight ==
    [PayloadMin EXCEPT !.name = "NYU Bobst Library", !.hour = HoursOvernight]

OpenPayloads == {PayloadFull, PayloadOvernight, PayloadMin}

OpenRequests ==
    {<<>>, <<<<"open_now", "true">>>>, <<<<"open_now", "false">>>>}

OpenClocks ==
    {<<"mon", "01:00">>, <<"mon", "10:00">>, <<"mon", "12:00">>, <<"mon", "18:00">>,
     <<"mon", "23:00">>, <<"tue", "12:00">>, <<"sun", "12:00">>}

NextOpen ==
    \/ \E studyspot \in OpenPayloads : Create(studyspot, FALSE, MaxOpenSpots)
    \/ \E query_params \in OpenRequests, clock \in OpenClocks :
          last.op # "list" /\ ListBegin(query_params, clock[1], clock[2], FALSE)
    \/ ListEnd(FALSE)

SpecOpen == Init /\ [][NextOpen]_vars

\* ===================================================================== claims
Stored(id) == id \in DOMAIN studyspots
\* the joined row of a stored spot
Row(db, id) == JoinRow(db.studyspots[id], db.hours[id])
DbNext == [studyspots |-> studyspots', hours |-> hours']

\* C1: DELETE of an id that is not stored answers 404 (and DELETE of a
\* stored id answers 204), so the second of two DELETEs of one id answers
\* 404.  The claim as stated; the handler answers 204 in both cases.
C1_DeleteMissingIs404 ==
    [][(last'.op = "delete" /\ ~last'.fail.db)
         => last'.status = IF Stored(last'.id) THEN 204 ELSE 404]_vars

\* C2: GET of an id with no stored spot answers 404, not a 5xx.  The claim
\* as stated; the handler rewraps the 404 of execute_query as 500.
C2_GetMissingIs404 ==
    [][(last'.op = "get" /\ ~last'.fail.db /\ ~Stored(last'.id))
         => last'.status = 404]_vars

\* C3: a PATCH that supplies no parameter answers 400, whether or not the
\* spot exists and whatever the database does, and changes no row of
\* studyspots or hours (so no field and no updated_at).
C3_EmptyPatchRejected ==
    [][(last'.op = "patch" /\ DOMAIN last'.req = {})
         => /\ last'.status = 400
            /\ studyspots' = studyspots
            /\ hours' = hours]_vars

\* C3 witness: an empty PATCH of a stored spot was answered 400.
C3_Witness ==
    /\ last.op = "patch"
    /\ DOMAIN last.req = {}
    /\ last.status = 400
    /\ Stored(last.id)

\* get_geocode succeeded, or was not called, during the PATCH recorded in l
GeocodeSucceeded(l) ==
    "street" \in DOMAIN l.req => ~get_geocode(l.req["street"], "New York", "NY", l.fail.geo).raised

\* C5: a PATCH that supplies at least one parameter, for an id with no
\* stored spot, with geocoding succeeding and the database answering,
\* answers 404 and leaves both tables as they were.
C5_PatchMissingIs404 ==
    [][(/\ last'.op = "patch"
        /\ DOMAIN last'.req # {}
        /\ ~Stored(last'.id)
        /\ ~last'.fail.db
        /\ GeocodeSucceeded(last'))
         => /\ last'.status = 404
            /\ studyspots' = studyspots
            /\ hours' = hours]_vars

\* C5 witness: a PATCH supplying a resolvable street for an id that is not
\* stored was answered 404.
C5_Witness ==
    /\ last.op = "patch"
    /\ "street" \in DOMAIN last.req
    /\ GeocodeSucceeded(last)
    /\ ~Stored(last.id)
    /\ last.status = 404

\* the columns a PATCH of parameter f writes besides updated_at
Written(f) == IF f = "street" THEN {"street", "latitude", "longitude", "postal_code"} ELSE {f}
\* the value stored for parameter f
StoredValue(f, v) == IF f = "environment" THEN JsonEnv(v) ELSE v
\* the step is a PATCH of exactly one parameter whose handler returned
SinglePatchStep == last'.op = "patch" /\ last'.raised = 0 /\ Cardinality(DOMAIN last'.req) = 1

\* C4 as stated: a PATCH of one parameter f that the handler completes
\* changes only column f and updated_at of the stored spot.
C4_OnlyFieldAndUpdatedAt ==
    [][SinglePatchStep =>
          LET f == CHOOSE c \in DOMAIN last'.req : TRUE
              old == Row(Db, last'.id)
              new == Row(DbNext, last'.id)
          IN  \A c \in DOMAIN old \ {f, "updated_at"} : new[c] = old[c]]_vars

\* C4 amended: a PATCH of one parameter f that the handler completes stores
\* the supplied value in column f, sets updated_at to the time of the
\* write, and changes no other column, except that a PATCH of street also
\* stores the latitude, longitude and postal_code geocoded from the new
\* street (in New York, NY).
C4_SingleFieldPatch ==
    [][SinglePatchStep =>
          LET f == CHOOSE c \in DOMAIN last'.req : TRUE
              old == Row(Db, last'.id)
              new == Row(DbNext, last'.id)
              geo == get_geocode(last'.req["street"], "New York", "NY", FALSE)
          IN  /\ new[f] = StoredValue(f, last'.req[f])
              /\ new.updated_at = now
              /\ new.updated_at >= old.updated_at
              /\ \A c \in DOMAIN old \ (Written(f) \cup {"updated_at"}) : new[c] = old[c]
              /\ f = "street" => /\ new.latitude = geo.latitude
                                 /\ new.longitude = geo.longitude
                                 /\ new.postal_code = geo.postal_code]_vars

\* C4 witness: a PATCH of street alone was completed and the spot holds the
\* coordinates of the new street.
C4_Witness ==
    /\ last.op = "patch"
    /\ last.raised = 0
    /\ DOMAIN last.req = {"street"}
    /\ studyspots[last.id].street = "184 Duane St"
    /\ studyspots[last.id].latitude = "40.7167"
    /\ studyspots[last.id].postal_code = "10013"

\* every field of the submitted entity has the submitted value in data
SameFields(studyspot, data) ==
    /\ data.name = studyspot.name
    /\ \A c \in DOMAIN studyspot.address : data.address[c] = studyspot.address[c]
    /\ \A c \in DOMAIN studyspot.amenity : data.amenity[c] = studyspot.amenity[c]
    /\ \A c \in DOMAIN studyspot.hour : data.hour[c] = studyspot.hour[c]

\* C6 as stated: a GET of the id a completed POST returned, right after it,
\* returns for every field of the submitted entity (name, address, amenity
\* and hour fields, the embedded ids and the environment list included) the
\* submitted value.
C6_CreateThenGet ==
    [][(/\ last.op = "create" /\ last.raised = 0
        /\ last'.op = "get" /\ last'.id = last.content.data.id /\ ~last'.fail.db)
         => /\ last'.raised = 0
            /\ SameFields(last.req, last'.content.data)]_vars

JobStatuses == {"pending", "running", "complete", "failed"}
Terminal == {"complete", "failed"}
JobEdges == {<<"pending", "running">>, <<"running", "complete">>, <<"running", "failed">>}
NoResult == [kind |-> "None"]

\* a job keeps its entry, its status is one of the four, and it changes
\* along an edge of the lifecycle only
LifecycleStep(job_id) ==
    /\ job_id \in DOMAIN jobs'
    /\ jobs'[job_id].status \in JobStatuses
    /\ jobs'[job_id].status # jobs[job_id].status
          => <<jobs[job_id].status, jobs'[job_id].status>> \in JobEdges

\* C7: statuses are pending, running, complete, failed; the only
\* transitions are pending->running, running->complete, running->failed;
\* once a job is complete or failed no step changes its status or its
\* result, and no job is retried.  The claim as stated; run_geocode_job
\* assigns the result in the statement after the one that assigns the
\* terminal status, so the result changes on a job that is already complete
\* or failed.
C7_TerminalFrozen ==
    [][\A job_id \in DOMAIN jobs :
          /\ LifecycleStep(job_id)
          /\ jobs[job_id].status \in Terminal => jobs'[job_id] = jobs[job_id]]_vars

\* What run_geocode_job does keep of the lifecycle: a new job is pending,
\* the status moves along the three edges only and never leaves complete or
\* failed, and the result is assigned once, after the terminal status.
JobLifecycle ==
    [][/\ \A job_id \in DOMAIN jobs' \ DOMAIN jobs : jobs'[job_id].status = "pending"
       /\ \A job_id \in DOMAIN jobs :
          /\ LifecycleStep(job_id)
          /\ jobs[job_id].status \in Terminal => jobs'[job_id].status = jobs[job_id].status
          /\ jobs[job_id].result # NoResult => jobs'[job_id].result = jobs[job_id].result
          /\ jobs'[job_id].result # jobs[job_id].result
                => /\ jobs[job_id].status \in Terminal
                   /\ jobs[job_id].result = NoResult]_vars

\* C8: every job that is created eventually is complete or failed, when
\* every statement of a started task is eventually executed.
C8_JobTerminates ==
    \A job_id \in 1..MaxFairJobs :
        (job_id \in DOMAIN jobs) ~> (job_id \in DOMAIN jobs /\ jobs[job_id].status \in Terminal)

\* C8 witness: a job whose database call raised has ended failed.
C8_Witness ==
    \E j \in DOMAIN jobs :
        /\ task[j].pc = "done"
        /\ jobs[j].status = "failed"
        /\ jobs[j].result = [kind |-> "dict", error |-> "DB Error"]

\* C9: POST geocode, for a stored or a missing spot, adds one job under an
\* id the map did not hold, pending with no result, touches no other job,
\* answers 202 with that id and leaves the task scheduled, not started;
\* and no step removes a job, so a GET /jobs/{id} of an id the map holds
\* answers 200 with that id and the status the handler read.
C9_PostRegistersJob ==
    [][/\ last'.op = "post_geocode" =>
            LET job_id == last'.content.job_id IN
            /\ last'.status = 202
            /\ job_id \notin DOMAIN jobs
            /\ DOMAIN jobs' = DOMAIN jobs \cup {job_id}
            /\ jobs'[job_id] = [status |-> "pending", result |-> NoResult]
            /\ task'[job_id].pc = "scheduled"
            /\ \A k \in DOMAIN jobs : jobs'[k] = jobs[k]
       /\ DOMAIN jobs \subseteq DOMAIN jobs'
       /\ (last'.op = "get_job" /\ last'.id \in DOMAIN jobs) =>
            /\ last'.status = 200
            /\ last'.content.job_id = last'.id
            /\ polling # <<>>
            /\ last'.content.status = polling[1].jobs[last'.id].status]_vars

\* C9 witness: a job was posted for a spot that is not stored, and is
\* pending.
C9_Witness ==
    /\ last.op = "post_geocode"
    /\ ~Stored(last.id)
    /\ last.status = 202
    /\ jobs[last.content.job_id] = [status |-> "pending", result |-> NoResult]

\* C10 as stated: in the step that makes a job complete, the spot of the
\* job is stored and holds the latitude, longitude and postal code the job
\* reports.
C10_CompleteMeansWritten ==
    [][\A job_id \in DOMAIN jobs :
          (jobs[job_id].status # "complete" /\ jobs'[job_id].status = "complete") =>
              LET id == task[job_id].studyspot_id
                  loc == task[job_id].loc
              IN  /\ id \in DOMAIN studyspots'
                  /\ studyspots'[id].latitude = loc.latitude
                  /\ studyspots'[id].longitude = loc.longitude
                  /\ studyspots'[id].postal_code = loc.postal_code]_vars

\* C11: a job that fails has status failed and the result {error: message
\* of the exception}, and has changed no stored spot: only the UPDATE that
\* returns changes a table, a job past that UPDATE never fails, and a job is
\* marked failed only by its except clause, with both tables as they were.
C11_FailedJobWroteNothing ==
    [][\A j \in DOMAIN task :
          /\ (last'.op = "run_geocode_job" /\ last'.id = j /\ DbNext # Db)
                => task'[j].pc = "complete"
          /\ task[j].pc \in {"complete", "complete_result"}
                => /\ task'[j].pc \in {"complete", "complete_result", "done"}
                   /\ jobs'[j].status # "failed"
          /\ (jobs[j].status # "failed" /\ jobs'[j].status = "failed")
                => task[j].pc = "except" /\ task[j].loc.raised /\ DbNext = Db
          /\ (task[j].pc = "failed_result" /\ task'[j].pc = "done")
                => jobs'[j] = [status |-> "failed",
                               result |-> [kind |-> "dict", error |-> task[j].loc.error]]]_vars

\* C11 witness: a job whose geocoding call raised has ended failed with the
\* error as its result, and the spot was never written.
C11_Witness ==
    \E j \in DOMAIN jobs :
        /\ task[j].pc = "done"
        /\ jobs[j] = [status |-> "failed", result |-> [kind |-> "dict", error |-> "client error"]]
        /\ Stored(1)
        /\ studyspots[1].updated_at = studyspots[1].created_at

\* the times at which the transaction that commits in this step ran
WriteTimes(id) == IF id \in DOMAIN txn THEN txn[id].begun .. now ELSE {now}

\* C12: every stored spot has updated_at >= created_at, every write to a
\* spot (PATCH of spot columns, PATCH of hours columns only, the UPDATE of
\* a geocode job) sets updated_at to the time of the write, and updated_at
\* never moves backwards, however the writes interleave.  The claim as
\* stated; NOW() is the time the transaction began, so a PATCH of hours
\* columns that began before a job's UPDATE and sets updated_at after it
\* moves updated_at back.
C12_UpdatedAtMonotone ==
    [][\A id \in DOMAIN studyspots' :
          /\ studyspots'[id].updated_at >= studyspots'[id].created_at
          /\ id \in DOMAIN studyspots =>
                /\ studyspots'[id].updated_at >= studyspots[id].updated_at
                /\ Row(DbNext, id) # Row(Db, id) => studyspots'[id].updated_at \in WriteTimes(id)]_vars

\* column c holds nothing: the environment list is empty, a nullable column
\* is None (booleans, keys and timestamps are never None)
Cleared(c, v) ==
    IF c = "environment" THEN v = <<>>
    ELSE IF c \in {"wifi_available", "outlets", "id", "studyspot_id", "hour_id",
                   "created_at", "updated_at"} THEN FALSE
    ELSE v = NULL

\* C13: no PATCH clears a stored field it was not given: after a PATCH,
\* every column of the spot and of its hours that is not among the supplied
\* parameters and is null or empty was so before the PATCH.
C13_NothingCleared ==
    [][last'.op = "patch" =>
          \A id \in DOMAIN studyspots \cap DOMAIN studyspots' :
              \A c \in DOMAIN Row(Db, id) \ DOMAIN last'.req :
                  Cleared(c, Row(DbNext, id)[c]) => Row(DbNext, id)[c] = Row(Db, id)[c]]_vars

\* C13 witness: two PATCH requests were committed, the last of name alone,
\* and the spot still has the hours, network and environment it was
\* created with.
C13_Witness ==
    /\ last.op = "patch" /\ last.raised = 0 /\ npatch = 2
    /\ DOMAIN last.req = {"name"}
    /\ studyspots[1].name = "Renamed"
    /\ studyspots[1].wifi_network = "NYPL"
    /\ studyspots[1].environment = <<"quiet", "indoor">>
    /\ hours[1].sat_end = "17:00"

\* C14: a create stores the spot under an id the server generates, which
\* is not the id of the request body and was never assigned before; every
\* stored row carries the id it is stored under (so no two spots share an
\* id), and no PATCH, DELETE or geocode job changes the id of a spot that
\* stays stored.
C14_IdsUniqueImmutable ==
    [][/\ (last'.op = "create" /\ last'.raised = 0) =>
            LET id == last'.content.data.id IN
            /\ id # last'.req.id
            /\ id >= nextId /\ nextId' > id
            /\ id \notin DOMAIN studyspots
            /\ DOMAIN studyspots' = DOMAIN studyspots \cup {id}
       /\ last'.op # "create" => DOMAIN studyspots' \subseteq DOMAIN studyspots
       /\ nextId' >= nextId
       /\ \A k \in DOMAIN studyspots' :
            /\ k < nextId'
            /\ studyspots'[k].id = k
            /\ k \in DOMAIN hours' /\ hours'[k].studyspot_id = k]_vars

\* C14 witness: the second spot created from the same body is stored under
\* another id than the first, which was deleted, and a job or a PATCH has
\* written it.
C14_Witness ==
    /\ DOMAIN studyspots = {2}
    /\ studyspots[2].id = 2
    /\ studyspots[2].name = PayloadFull.name
    /\ studyspots[2].updated_at > studyspots[2].created_at

\* geocoding of street fails: the maps client raises, the service has no
\* result for the address, or its result has no postal_code component
GeocodeFails(street, gfail) ==
    LET data == gmaps_geocode(street, "New York", "NY") IN
    \/ gfail
    \/ data = <<>>
    \/ data # <<>> /\ "postal_code" \notin data[1].components

GeocodeErrors ==
    {"client error", "Geocoding failed: no results",
     "local variable 'postal_code' referenced before assignment"}

\* C19: a PATCH that supplies street and whose geocoding fails (the client
\* raises, no result, or no postal_code component) answers 500 with the
\* text of the exception, and writes nothing: both tables, and so every
\* column of the spot and its updated_at, are as before.
C19_GeocodeFailureWritesNothing ==
    [][(/\ last'.op = "patch"
        /\ "street" \in DOMAIN last'.req
        /\ GeocodeFails(last'.req["street"], last'.fail.geo))
         => /\ last'.raised = 500
            /\ last'.status = 500
            /\ studyspots' = studyspots
            /\ hours' = hours
            /\ now' = now
            /\ last'.content.detail \in GeocodeErrors]_vars

\* C19 witness: a PATCH of a stored spot supplying a street without postal
\* code and an opening time was answered 500, after an earlier PATCH was
\* committed, and the spot holds neither value.
C19_Witness ==
    /\ last.op = "patch"
    /\ DOMAIN last.req = {"street", "mon_start"}
    /\ ~last.fail.geo
    /\ last.raised = 500
    /\ npatch > 0
    /\ Stored(last.id)
    /\ studyspots[last.id].street # "Pier 1"
    /\ hours[last.id].mon_start # "07:30"
\* C20: no step removes a job from the job map, whatever the job's status,
\* so GET /jobs/{job_id} answers 404 exactly for an id that was never
\* issued, and 200 for every issued id.
C20_JobsNeverRemoved ==
    [][/\ \A job_id \in DOMAIN jobs : job_id \in DOMAIN jobs'
       /\ last'.op = "get_job" =>
            /\ last'.status \in {200, 404}
            /\ last'.status = 404 <=> last'.id \notin DOMAIN jobs]_vars

\* C20 witness: the status of a job that ended, and whose task has
\* returned, was read with 200 while another id was not issued yet.
C20_Witness ==
    /\ last.op = "get_job"
    /\ last.status = 200
    /\ last.id \in DOMAIN jobs
    /\ jobs[last.id].status \in Terminal
    /\ task[last.id].pc = "done"
    /\ \E x \in JobIds : x \notin DOMAIN jobs
\* text holds sub as a run of consecutive characters
Contains(text, sub) ==
    \E i \in 0..(Len(text) - Len(sub)) : SubSeq(text, i + 1, i + Len(sub)) = sub
SubstringOf(v, column) == v = "" \/ (column # NULL /\ Contains(Chars(column), Chars(v)))

\* the spot in data satisfies the filter k=v as the claims read it
SatisfiesFilter(data, k, v) ==
    CASE k = "name" -> SubstringOf(v, data.name)
      [] k = "refreshments" -> SubstringOf(v, data.amenity.refreshments)
      [] k = "neighborhood" -> data.address.neighborhood = v
      [] k = "seating" -> data.amenity.seating = v
      [] k = "wifi" -> data.amenity.wifi_available = BoolOf(v)
      [] k = "outlets" -> data.amenity.outlets = BoolOf(v)
      [] k = "environment" ->
            \E i \in DOMAIN data.amenity.environment : data.amenity.environment[i] = v
      [] k = "open_day" -> data.hour[StartCol(v)] # NULL
      [] OTHER -> TRUE
Satisfies(data, query_params) ==
    \A i \in DOMAIN query_params :
        SatisfiesFilter(data, query_params[i][1], query_params[i][2])

\* the tables that the page query of the list request answered in the
\* step read
PageDb == IF listing # <<>> THEN listing[1].db ELSE Db
\* the spots stored then that satisfy the filters of a request
Satisfying(query_params) ==
    {id \in DOMAIN PageDb.studyspots : Satisfies(StudySpotRead(Row(PageDb, id)), query_params)}
\* the ids of the spots a list response returns
Returned(content) == {content.items[i].data.id : i \in DOMAIN content.items}
\* the handler of GET /studyspots returned in the step
ListReturned == last'.op = "list" /\ last'.raised = 0

\* C15: every spot that GET /studyspots returns satisfies each supplied
\* filter (name and refreshments hold the value as a substring,
\* neighborhood, seating, wifi and outlets equal it, environment lists it,
\* open_day has an opening time), and the filters left out constrain
\* nothing: a first page large enough returns every spot that is stored
\* when the page query runs and satisfies the supplied ones.
C15_ListFilters ==
    [][ListReturned =>
          LET query_params == last'.req.query_params IN
          /\ \A i \in DOMAIN last'.content.items :
                Satisfies(last'.content.items[i].data, query_params)
          /\ (/\ ~HasParam(query_params, "open_now")
              /\ PageOf(query_params) = 1
              /\ PageSizeOf(query_params) >= Cardinality(Satisfying(query_params)))
                => Returned(last'.content) = Satisfying(query_params)]_vars
\* the request supplies no filter: its query string holds page and
\* page_size at most
NoFilters(query_params) ==
    \A i \in DOMAIN query_params : query_params[i][1] \in {"page", "page_size"}

\* C16: with the database answering, GET /studyspots without filters, for
\* page 1 and a page_size of at least the number of stored spots, returns,
\* and returns exactly the spots stored when its page query runs; on the
\* empty store too.
C16_NoFiltersReturnsAll ==
    [][(/\ last'.op = "list"
        /\ ~last'.fail.db
        /\ NoFilters(last'.req.query_params)
        /\ PageOf(last'.req.query_params) = 1
        /\ PageSizeOf(last'.req.query_params) >= Cardinality(DOMAIN PageDb.studyspots))
         => /\ last'.raised = 0
            /\ Returned(last'.content) = DOMAIN PageDb.studyspots]_vars
\* the number of stored spots that match the filters of the request
\* answered in the step, when its count query runs
CountMatching ==
    Cardinality(Matching(Db, ListWhere(last'.req.query_params, last'.req.current_day,
                                       last'.req.current_time)))
\* the least number of pages of n items, from least on, that hold m items
PagesFor(m, n, least) ==
    CHOOSE t \in least..(m + 1) : t * n >= m /\ (t = least \/ (t - 1) * n < m)
\* the page the "last" link of every returned item points to is page t
LastPageIs(t) ==
    \A i \in DOMAIN last'.content.items :
        last'.content.items[i].links.items[5].rel =
            build_url(t, PageSizeOf(last'.req.query_params), last'.req.query_params)
\* the handler of GET /studyspots returned for a page >= 1 of size > 0
PageReturned ==
    /\ ListReturned
    /\ PageOf(last'.req.query_params) >= 1
    /\ PageSizeOf(last'.req.query_params) > 0

\* C17 as stated: a list response for page >= 1 and page_size N > 0 holds
\* at most N items, and its total page count is ceil(M / N), M being the
\* number of matching spots that the count query finds.
C17_Pagination ==
    [][PageReturned =>
          /\ Len(last'.content.items) <= PageSizeOf(last'.req.query_params)
          /\ LastPageIs(PagesFor(CountMatching, PageSizeOf(last'.req.query_params), 0))]_vars

\* C17 amended: a list response for page >= 1 and page_size N > 0 holds at
\* most N items, and its total page count is ceil(M / N) but at least 1: it
\* is 1 when the count query finds no matching spot.
C17_PaginationAtLeastOnePage ==
    [][PageReturned =>
          /\ Len(last'.content.items) <= PageSizeOf(last'.req.query_params)
          /\ LastPageIs(PagesFor(CountMatching, PageSizeOf(last'.req.query_params), 1))]_vars

\* C17 witness: page 2 of size 2 of three stored spots was returned with
\* one item, whose "last" link points to page 2.
C17_Witness ==
    /\ last.op = "list"
    /\ last.raised = 0
    /\ Cardinality(DOMAIN studyspots) = 3
    /\ last.req.query_params = <<<<"page", "2">>, <<"page_size", "2">>>>
    /\ Len(last.content.items) = 1
    /\ last.content.items[1].links.items[5].rel = build_url(2, 2, last.req.query_params)
\* The query string of a link as a server reads it: the characters after
\* "?" are split at each "&", and each piece at its first "=", into a key
\* and a value (no value of the requests here holds a %XX escape or a "+",
\* which reading would decode).
RECURSIVE SplitAt(_, _)
SplitAt(chars, sep) ==
    IF \A i \in DOMAIN chars : chars[i] # sep THEN <<chars>>
    ELSE LET n == CHOOSE i \in DOMAIN chars :
                      chars[i] = sep /\ \A j \in 1..(i - 1) : chars[j] # sep
         IN  <<SubSeq(chars, 1, n - 1)>> \o SplitAt(SubSeq(chars, n + 1, Len(chars)), sep)
KeyValue(piece) ==
    IF \A i \in DOMAIN piece : piece[i] # "=" THEN <<piece, <<>>>>
    ELSE LET n == CHOOSE i \in DOMAIN piece :
                      piece[i] = "=" /\ \A j \in 1..(i - 1) : piece[j] # "="
         IN  <<SubSeq(piece, 1, n - 1), SubSeq(piece, n + 1, Len(piece))>>
ParseQuery(url) ==
    LET pieces == SplitAt(SubSeq(url, 3, Len(url)), "&")
    IN  [i \in DOMAIN pieces |-> KeyValue(pieces[i])]
\* the query string holds key k with value v, once
LinkHas(url, k, v) ==
    LET pairs == ParseQuery(url) IN
    /\ \E i \in DOMAIN pairs : pairs[i] = <<Chars(k), Chars(v)>>
    /\ Cardinality({i \in DOMAIN pairs : pairs[i][1] = Chars(k)}) = 1

\* url is a link to page t of the list with the page_size and the other
\* parameters of the request, and nothing else
LinksTo(url, t, query_params) ==
    /\ url # NoUrl
    /\ url[1] = "/studyspots" /\ url[2] = "?"
    /\ LinkHas(url, "page", StrOf(t))
    /\ LinkHas(url, "page_size", StrOf(PageSizeOf(query_params)))
    /\ \A i \in DOMAIN query_params :
          query_params[i][1] \notin {"page", "page_size"}
            => LinkHas(url, query_params[i][1], query_params[i][2])
    /\ \A i \in DOMAIN ParseQuery(url) :
          \/ ParseQuery(url)[i][1] \in {Chars("page"), Chars("page_size")}
          \/ \E j \in DOMAIN query_params : ParseQuery(url)[i][1] = Chars(query_params[j][1])

\* C18: every item of a returned list response for page p carries the five
\* links: first to page 1, last to the total page count T, prev to page
\* p - 1 when p > 1 and None otherwise, next to page p + 1 when p < T and
\* None otherwise; each link holds the page_size of the request and its
\* other query parameters with their values.
C18_PaginationLinks ==
    [][ListReturned =>
          LET query_params == last'.req.query_params
              p == PageOf(query_params)
              T == PagesFor(CountMatching, PageSizeOf(query_params), 1)
          IN  \A i \in DOMAIN last'.content.items :
                LET links == last'.content.items[i].links.items IN
                /\ Len(links) = 5
                /\ links[2].href = "first" /\ LinksTo(links[2].rel, 1, query_params)
                /\ links[3].href = "prev"
                /\ IF p > 1 THEN LinksTo(links[3].rel, p - 1, query_params)
                            ELSE links[3].rel = NoUrl
                /\ links[4].href = "next"
                /\ IF p < T THEN LinksTo(links[4].rel, p + 1, query_params)
                            ELSE links[4].rel = NoUrl
                /\ links[5].href = "last" /\ LinksTo(links[5].rel, T, query_params)]_vars
\* C21: with the name of the host resolving, GET /health answers 200 with
\* status 200 and status_message "OK" whatever spots are stored and
\* whatever jobs the job map holds, and leaves the tables and the job map
\* as they are.
C21_HealthAlways200 ==
    [][(last'.op = "health" /\ ~last'.fail.host)
         => /\ last'.status = 200
            /\ last'.content.status = 200
            /\ last'.content.status_message = "OK"
            /\ studyspots' = studyspots /\ hours' = hours
            /\ jobs' = jobs /\ task' = task]_vars

\* C21 witness: the probe was answered 200 with a spot deleted, a spot
\* stored and a job that has started.
C21_Witness ==
    /\ last.op = "health"
    /\ last.status = 200
    /\ Cardinality(DOMAIN studyspots) = 1
    /\ \E job_id \in DOMAIN jobs : jobs[job_id].status = "running"
\* C22: whatever GET /jobs/{job_id} reports, the result is None exactly
\* when the status is pending or running, and so is set exactly when the
\* status is complete or failed; also for a request that is served between
\* two statements of the job.
C22_ResultMatchesStatus ==
    (last.op = "get_job" /\ last.raised = 0)
        => (last.content.result = NoResult <=> last.content.status \in {"pending", "running"})
\* the coordinates get_geocode returns for a street, none when it raises
CoordinatesOf(street, city, state) ==
    LET geo == get_geocode(street, city, state, FALSE) IN
    IF geo.raised THEN {} ELSE {<<geo.latitude, geo.longitude>>}

\* C23: whenever a PATCH or a geocode job changes the street or the
\* coordinates of a stored spot, the coordinates stored afterwards are those
\* geocoded from the street stored afterwards (with the stored city and
\* state, as the job geocodes, or with the defaults, as PATCH geocodes); a
\* job that read the street before a PATCH changed it does not put back
\* the coordinates of the earlier street.
C23_CoordinatesOfStoredStreet ==
    [][\A id \in DOMAIN studyspots \cap DOMAIN studyspots' :
        LET old == studyspots[id]
            new == studyspots'[id]
        IN  (old.street # new.street \/ old.latitude # new.latitude \/ old.longitude # new.longitude)
                => <<new.latitude, new.longitude>>
                    \in CoordinatesOf(new.street, new.city, new.state)
                        \cup CoordinatesOf(new.street, "New York", "NY")]_vars
\* C24: in every state the spots that have an hours row are exactly the
\* stored spots: create inserts both rows and delete removes both rows in
\* one transaction, so a failure leaves neither a spot without hours nor
\* hours without a spot.
C24_SpotsAndHours ==
    DOMAIN hours = DOMAIN studyspots

\* a failed create or delete beside a stored spot, and a delete that removed
\* a spot created before
C24_Witness ==
    /\ last.op = "delete"
    /\ last.id < nextId
    /\ last.id \notin DOMAIN studyspots
    /\ DOMAIN studyspots # {}
\* the value a GET shows for PATCH parameter f
Observed(data, f) ==
    IF f = "name" THEN data.name
    ELSE IF f \in AddressCols THEN data.address[f]
    ELSE IF f \in AmenityCols THEN data.amenity[f]
    ELSE data.hour[f]

\* every supplied parameter of patch among cols has its supplied value in data
Shows(data, patch, cols) ==
    \A f \in DOMAIN patch \cap cols : Observed(data, f) = StoredValue(f, patch[f])

\* C25: a PATCH of a stored spot that supplies spot columns and hours
\* columns is applied as a whole or not at all: opening its transaction
\* changes no stored row, its answer comes with every supplied column
\* stored, updated_at set and the answer built from the stored row, or,
\* when it fails, with both tables as they were; and a GET served while
\* the transaction is open does not show the supplied spot values without
\* the supplied hours values.
C25_PatchAtomic ==
    [][/\ last'.op = "update_studyspot begin" => (studyspots' = studyspots /\ hours' = hours)
       /\ (last'.op = "patch" /\ last'.id \in DOMAIN studyspots)
            => \/ /\ last'.raised # 0
                  /\ studyspots' = studyspots
                  /\ hours' = hours
               \/ /\ last'.raised = 0
                  /\ \A f \in DOMAIN last'.req :
                        Row(DbNext, last'.id)[f] = StoredValue(f, last'.req[f])
                  /\ studyspots'[last'.id].updated_at >= studyspots[last'.id].updated_at
                  /\ Shows(last'.content.data, last'.req, SpotCols \cup HourCols)
       /\ (last'.op = "get" /\ last'.raised = 0 /\ last'.id \in DOMAIN txn)
            => LET patch == txn[last'.id].patch
                   data == last'.content.data
               IN  Shows(data, patch, SpotCols) => Shows(data, patch, HourCols)]_vars

\* C25 witness: both PATCH requests of spot and hours columns were applied,
\* the last one answered with its spot and hours values stored.
C25_Witness ==
    /\ last.op = "patch"
    /\ last.raised = 0
    /\ DOMAIN last.req \cap SpotCols # {}
    /\ DOMAIN last.req \cap HourCols # {}
    /\ studyspots[1].wifi_network = "Guest"
    /\ hours[1].mon_start = "07:30"
    /\ studyspots[1].name = "Renamed"
    /\ hours[1].sun_end = "23:00"
\* l answers a GET with an If-None-Match header for a stored spot
Conditional(l) ==
    l.op = "get" /\ "if_none_match" \in DOMAIN l.req /\ l.id \in DOMAIN studyspots /\ ~l.fail.db

\* the ETag of the stored spot id
CurrentEtag(db, id) == generate_etag(<<id, db.studyspots[id].updated_at>>)

\* what the claim of C26 says of one step; ok is the status of a GET whose
\* header is not the current ETag
ConditionalGetStep(ok) ==
    /\ Conditional(last') =>
          LET current == CurrentEtag(DbNext, last'.id) IN
          /\ last'.etag = current
          /\ (last'.status = 304) <=> (last'.req.if_none_match = current)
          /\ last'.status = 304 => last'.content = NoContent
          /\ last'.req.if_none_match # current
                => /\ last'.status \in ok
                   /\ last'.content # NoContent
                   /\ last'.content.data = StudySpotRead(Row(DbNext, last'.id))
    /\ (Conditional(last) /\ Conditional(last') /\ last'.id = last.id) => last'.etag = last.etag
    /\ \A id \in DOMAIN studyspots \cap DOMAIN studyspots' :
          studyspots'[id] # studyspots[id] => CurrentEtag(DbNext, id) # CurrentEtag(Db, id)

\* C26: a GET of a stored spot answers 304 with no body exactly when
\* If-None-Match is the spot's current ETag; the ETag is computed from the
\* id and updated_at alone, so two GETs with no write in between carry the
\* same ETag; every PATCH or job that writes the spot changes its ETag, and
\* a GET with an ETag that is not the current one answers 200 with the
\* stored representation.
C26_ConditionalGet ==
    [][ConditionalGetStep({200})]_vars

\* What get_studyspot does keep of C26: all of it but the status of the
\* full answer, which is 500.
ConditionalGetReturned ==
    [][ConditionalGetStep({500})]_vars
\* the query parameters of a list request other than the page number
OtherParams(query_params) ==
    {query_params[i] : i \in {j \in DOMAIN query_params : query_params[j][1] # "page"}}

\* the step answers a list request for another page of the list the
\* previous step answered a page of, with the same filters and page size
NextPageStep ==
    /\ listing # <<>>
    /\ listing[1].held.op = "list"
    /\ listing[1].held.raised = 0
    /\ ListReturned
    /\ OtherParams(last'.req.query_params) = OtherParams(listing[1].held.req.query_params)
    /\ PageOf(last'.req.query_params) # PageOf(listing[1].held.req.query_params)

\* C27: with the store unchanged, the pages of a list for fixed filters and
\* page size hold every matching spot exactly once: two different pages
\* requested one after the other share no spot, and when there are two
\* pages the two together hold every matching spot.
C27_PagesPartition ==
    [][NextPageStep =>
          /\ Returned(listing[1].held.content) \cap Returned(last'.content) = {}
          /\ PagesFor(CountMatching, PageSizeOf(last'.req.query_params), 1) = 2
                => Returned(listing[1].held.content) \cup Returned(last'.content)
                     = Matching(Db, ListWhere(last'.req.query_params, last'.req.current_day,
                                              last'.req.current_time))]_vars
\* the spots whose hours of the day are both set and hold the time between
\* them
OpenAt(h, day, time) ==
    {id \in DOMAIN h :
        /\ h[id][StartCol(day)] # NULL
        /\ h[id][EndCol(day)] # NULL
        /\ Minutes(h[id][StartCol(day)]) <= Minutes(time)
        /\ Minutes(time) <= Minutes(h[id][EndCol(day)])}

\* the spots a list request was answered with, none when it failed
Got(l) == IF l.raised = 0 THEN Returned(l.content) ELSE {}

\* C28: the list with open_now=true as its only filter returns a spot
\* exactly when the start and the end of the server's weekday are both set
\* and start <= current time <= end, so never a spot whose hours of that
\* day end before they start; with open_now=false, as with no open_now,
\* it returns every stored spot.  The hours and the spots are those stored
\* when the page query runs; spots are created before the count query.
C28_OpenNow ==
    [][(last'.op = "list" /\ last'.req.query_params \in OpenRequests) =>
          LET day == last'.req.current_day
              time == last'.req.current_time
          IN  IF last'.req.query_params = <<<<"open_now", "true">>>>
              THEN /\ Got(last') = OpenAt(PageDb.hours, day, time)
                   /\ \A id \in Got(last') :
                         Minutes(PageDb.hours[id][StartCol(day)])
                            <= Minutes(PageDb.hours[id][EndCol(day)])
              ELSE Got(last') = DOMAIN PageDb.studyspots]_vars

\* C28 witness: on a Monday at 12:00, with a spot open 08:00-02:00 and a
\* spot open 10:00-18:00 stored, open_now=true returned the second alone.
C28_Witness ==
    /\ last.op = "list"
    /\ last.raised = 0
    /\ last.req.query_params = <<<<"open_now", "true">>>>
    /\ last.req.current_day = "mon"
    /\ last.req.current_time = "12:00"
    /\ \E id \in DOMAIN hours \ Returned(last.content) :
          hours[id].mon_start = "08:00" /\ hours[id].mon_end = "02:00"
    /\ \E id \in Returned(last.content) :
          hours[id].mon_start = "10:00" /\ hours[id].mon_end = "18:00"
\* C29: a create, get, patch or list whose handler returns a value answers
\* its declared status, 201 for create and 200 for the others: the value
\* conforms to the declared response model.
C29_SuccessConformsToModel ==
    (last.op \in {"create", "get", "patch", "list"} /\ last.raised = 0 /\ last.content # NoContent)
        => last.status = (IF last.op = "create" THEN 201 ELSE 200)
\* the rows of spot id are stored after the step as they were before it
RowsUnchanged(id) ==
    /\ id \in DOMAIN studyspots' /\ id \in DOMAIN hours'
    /\ studyspots'[id] = studyspots[id]
    /\ hours'[id] = hours[id]

\* C30: the four GET routes change neither the stored spots nor the job
\* map, in either half of a list request or of a job poll; a PATCH or a DELETE of spot A and every step of a geocode job of
\* spot A leave the rows of every other stored spot as they were, every
\* field and updated_at; and a step of a job changes no other job's entry
\* of the job map, nor do PATCH and DELETE change any.
C30_Frame ==
    [][/\ last'.op \in {"get", "list", "list begin", "get_job", "get_job begin", "health"}
            => (studyspots' = studyspots /\ hours' = hours /\ jobs' = jobs)
       /\ last'.op \in {"patch", "delete"}
            => /\ \A id \in DOMAIN studyspots \ {last'.id} : RowsUnchanged(id)
               /\ jobs' = jobs
       /\ last'.op = "run_geocode_job"
            => /\ \A id \in DOMAIN studyspots \ {task[last'.id].studyspot_id} : RowsUnchanged(id)
               /\ DOMAIN jobs' = DOMAIN jobs
               /\ \A job_id \in DOMAIN jobs \ {last'.id} : jobs'[job_id] = jobs[job_id]]_vars

\* C30 witness: spot 1 was deleted while a job of spot 2 had written its
\* coordinates and another job was in the map; spot 2 is stored.
C30_Witness ==
    /\ last.op = "delete"
    /\ last.id = 1
    /\ 1 \notin DOMAIN studyspots
    /\ 2 \in DOMAIN studyspots
    /\ Cardinality(DOMAIN jobs) = 2
    /\ \E job_id \in DOMAIN jobs :
          task[job_id].studyspot_id = 2 /\ jobs[job_id].status = "complete"
====
